---- MODULE Spec2Model ----
(***************************************************************************)
(* Model of the natural-language-to-SQL analytics core of LedgerLoop:      *)
(*   - SQLAgentRunner (backend/app/services/analysis/sql_agent.py): the    *)
(*     bounded generate / validate / execute / repair loop in its four     *)
(*     authoring strategies and the fallbacks between them;                *)
(*   - the fuzzy-retry merge of two runner results (api/analysis.py);      *)
(*   - validate_safe_sql (services/analysis/sql_validation.py);            *)
(*   - the sandboxed household view (_run_sql / HOUSEHOLD_CTE).            *)
(***************************************************************************)
EXTENDS Integers, Sequences, FiniteSets, TLC

(***************************************************************************)
(* Bounds of the model.                                                    *)
(***************************************************************************)
MaxAttemptsBound == 2
MaxToolCalls == 2
MaxRepairAttempts == 3

(***************************************************************************)
(* Python values.  None is a value of its own; StrNone is str(None).       *)
(***************************************************************************)
None == "<none>"
StrNone == "None"

Falsy(s) == s = None \/ s = ""

\* Python's  a or b  on optional strings
PyOr(a, b) == IF Falsy(a) THEN b ELSE a

\* str(x).strip() or None
StrOrNone(x) == IF x = None THEN StrNone ELSE IF x = "" THEN None ELSE x

(***************************************************************************)
(* Python strings.  A TLA+ string is the Python str; Len, \o and SubSeq    *)
(* are len(), + and slicing.                                               *)
(***************************************************************************)
Char(s, i) == SubSeq(s, i, i)

\* the characters that str.strip() removes and \s matches
Whitespace == {" ", "\t", "\n", "\r", "\f"}

IsSpace(c) == c \in Whitespace

UpperCase == "ABCDEFGHIJKLMNOPQRSTUVWXYZ"
LowerCase == "abcdefghijklmnopqrstuvwxyz"
Digits == "0123456789"

InString(c, alphabet) == \E i \in 1..Len(alphabet) : Char(alphabet, i) = c

\* [a-zA-Z_]
IsIdentStart(c) == InString(c, LowerCase) \/ InString(c, UpperCase) \/ c = "_"

\* \w
IsWordChar(c) == IsIdentStart(c) \/ InString(c, Digits)

LowerChar(c) ==
  IF InString(c, UpperCase)
    THEN Char(LowerCase, CHOOSE i \in 1..Len(UpperCase) : Char(UpperCase, i) = c)
    ELSE c

RECURSIVE Lower(_)
\* str.lower(), one half of the text after the other
Lower(s) ==
  IF Len(s) = 0 THEN ""
  ELSE IF Len(s) = 1 THEN LowerChar(s)
  ELSE Lower(SubSeq(s, 1, Len(s) \div 2)) \o Lower(SubSeq(s, (Len(s) \div 2) + 1, Len(s)))

UpperChar(c) ==
  IF InString(c, LowerCase)
    THEN Char(UpperCase, CHOOSE i \in 1..Len(LowerCase) : Char(LowerCase, i) = c)
    ELSE c

RECURSIVE Upper(_)
\* str.upper(), one half of the text after the other
Upper(s) ==
  IF Len(s) = 0 THEN ""
  ELSE IF Len(s) = 1 THEN UpperChar(s)
  ELSE Upper(SubSeq(s, 1, Len(s) \div 2)) \o Upper(SubSeq(s, (Len(s) \div 2) + 1, Len(s)))

\* str.strip()
Strip(s) ==
  LET solid == {i \in 1..Len(s) : ~IsSpace(Char(s, i))}
  IN IF solid = {} THEN ""
     ELSE SubSeq(s, CHOOSE i \in solid : \A j \in solid : i <= j,
                    CHOOSE i \in solid : \A j \in solid : i >= j)

\* str.startswith(prefix)
StartsWith(s, prefix) == Len(s) >= Len(prefix) /\ SubSeq(s, 1, Len(prefix)) = prefix

\* part in s
Contains(s, part) ==
  \E i \in 1..(Len(s) - Len(part) + 1) : SubSeq(s, i, i + Len(part) - 1) = part

\* the first position from i on that does not hold a whitespace character
SkipSpaces(s, i) ==
  IF \E j \in i..Len(s) : ~IsSpace(Char(s, j))
    THEN CHOOSE j \in i..Len(s) : /\ ~IsSpace(Char(s, j))
                                  /\ \A k \in i..(j - 1) : IsSpace(Char(s, k))
    ELSE Len(s) + 1

\* the last position of the run of [\w\.] characters that starts at i
IdentEnd(s, i) ==
  CHOOSE j \in i..Len(s) :
    /\ \A k \in i..j : IsWordChar(Char(s, k)) \/ Char(s, k) = "."
    /\ j = Len(s) \/ ~(IsWordChar(Char(s, j + 1)) \/ Char(s, j + 1) = ".")

\* str.endswith(suffix)
EndsWith(s, suffix) ==
  Len(s) >= Len(suffix) /\ SubSeq(s, Len(s) - Len(suffix) + 1, Len(s)) = suffix

\* [0-9a-fA-F]
IsHex(c) == InString(c, Digits) \/ InString(c, "abcdef") \/ InString(c, "ABCDEF")

\* the text consists of decimal digits only (and is not empty)
IsDigits(s) == Len(s) > 0 /\ \A i \in 1..Len(s) : InString(Char(s, i), Digits)

DigitValue(c) == (CHOOSE i \in 1..10 : Char(Digits, i) = c) - 1

RECURSIVE IntOf(_)
\* int(s) of a text of decimal digits
IntOf(s) ==
  IF s = "" THEN 0
  ELSE 10 * IntOf(SubSeq(s, 1, Len(s) - 1)) + DigitValue(Char(s, Len(s)))

RECURSIVE NatText(_)
\* str(n) of a natural number
NatText(n) ==
  IF n < 10 THEN Char(Digits, n + 1)
  ELSE NatText(n \div 10) \o Char(Digits, (n % 10) + 1)

\* str(n) of an int
IntText(n) == IF n < 0 THEN "-" \o NatText(0 - n) ELSE NatText(n)

\* the natural number with at least width digits: f"{n:0{width}d}"
RECURSIVE ZeroPadded(_, _)
ZeroPadded(n, width) ==
  IF Len(NatText(n)) >= width THEN NatText(n)
  ELSE "0" \o ZeroPadded(n, width - 1)

RECURSIVE Join(_, _)
\* sep.join(parts)
Join(parts, sep) ==
  IF Len(parts) = 0 THEN ""
  ELSE IF Len(parts) = 1 THEN parts[1]
  ELSE parts[1] \o sep \o Join(Tail(parts), sep)

RECURSIVE ReplaceFrom(_, _, _, _)
\* str.replace(old, new) from position i on: up to the next occurrence, the
\* replacement, and the rest
ReplaceFrom(s, i, old, new) ==
  LET at == {p \in i..(Len(s) - Len(old) + 1) : SubSeq(s, p, p + Len(old) - 1) = old}
  IN IF at = {} THEN SubSeq(s, i, Len(s))
     ELSE LET next == CHOOSE p \in at : \A o \in at : p <= o
          IN SubSeq(s, i, next - 1) \o new \o ReplaceFrom(s, next + Len(old), old, new)

\* str.replace(old, new)
Replace(s, old, new) == ReplaceFrom(s, 1, old, new)

\* the literal w stands at position i
LiteralAt(s, i, w) == i + Len(w) - 1 <= Len(s) /\ SubSeq(s, i, i + Len(w) - 1) = w

\* \b before the word character at position i
BoundaryBefore(s, i) == i = 1 \/ ~IsWordChar(Char(s, i - 1))

\* \b after the word character at position j
BoundaryAfter(s, j) == j >= Len(s) \/ ~IsWordChar(Char(s, j + 1))

\* the last position of the run of digits that starts at i (i - 1 if none)
DigitsEnd(s, i) ==
  IF i <= Len(s) /\ InString(Char(s, i), Digits)
    THEN CHOOSE j \in i..Len(s) :
           /\ \A k \in i..j : InString(Char(s, k), Digits)
           /\ j = Len(s) \/ ~InString(Char(s, j + 1), Digits)
    ELSE i - 1

(***************************************************************************)
(* Python dates (datetime.date): a date is a record of year, month, day;   *)
(* toordinal() counts the days from 0001-01-01 = 1.                        *)
(***************************************************************************)
Date(y, m, d) == [year |-> y, month |-> m, day |-> d]

IsLeap(y) == (y % 4 = 0 /\ y % 100 # 0) \/ y % 400 = 0

DaysInMonth(y, m) ==
  IF m = 2 THEN (IF IsLeap(y) THEN 29 ELSE 28)
  ELSE IF m \in {4, 6, 9, 11} THEN 30 ELSE 31

\* the days of the year y before its month m
RECURSIVE DaysBeforeMonth(_, _)
DaysBeforeMonth(y, m) ==
  IF m = 1 THEN 0 ELSE DaysBeforeMonth(y, m - 1) + DaysInMonth(y, m - 1)

\* the days before January 1st of the year y
DaysBeforeYear(y) ==
  LET p == y - 1 IN p * 365 + (p \div 4) - (p \div 100) + (p \div 400)

DaysInYear(y) == IF IsLeap(y) THEN 366 ELSE 365

\* date.toordinal()
ToOrdinal(dt) == DaysBeforeYear(dt.year) + DaysBeforeMonth(dt.year, dt.month) + dt.day

\* date.fromordinal(n)
FromOrdinal(n) ==
  LET y == CHOOSE c \in ((n \div 366))..((n \div 365) + 1) :
             c >= 1 /\ DaysBeforeYear(c) < n /\ n <= DaysBeforeYear(c) + DaysInYear(c)
      rest == n - DaysBeforeYear(y)
      m == CHOOSE c \in 1..12 :
             DaysBeforeMonth(y, c) < rest /\ rest <= DaysBeforeMonth(y, c) + DaysInMonth(y, c)
  IN Date(y, m, rest - DaysBeforeMonth(y, m))

\* date.weekday(): Monday is 0
Weekday(dt) == (ToOrdinal(dt) + 6) % 7

\* date + timedelta(days=n)
AddDays(dt, n) == FromOrdinal(ToOrdinal(dt) + n)

\* date.isoformat()
IsoFormat(dt) ==
  ZeroPadded(dt.year, 4) \o "-" \o ZeroPadded(dt.month, 2) \o "-" \o ZeroPadded(dt.day, 2)

\* the text is YYYY-MM-DD of a date of the calendar
IsIsoDate(s) ==
  /\ Len(s) = 10
  /\ Char(s, 5) = "-" /\ Char(s, 8) = "-"
  /\ IsDigits(SubSeq(s, 1, 4)) /\ IsDigits(SubSeq(s, 6, 7)) /\ IsDigits(SubSeq(s, 9, 10))
  /\ IntOf(SubSeq(s, 1, 4)) >= 1
  /\ IntOf(SubSeq(s, 6, 7)) \in 1..12
  /\ IntOf(SubSeq(s, 9, 10)) \in 1..DaysInMonth(IntOf(SubSeq(s, 1, 4)), IntOf(SubSeq(s, 6, 7)))

\* date.fromisoformat(s)
FromIsoFormat(s) ==
  Date(IntOf(SubSeq(s, 1, 4)), IntOf(SubSeq(s, 6, 7)), IntOf(SubSeq(s, 9, 10)))

\* strftime("%b")
MonthAbbr == <<"Jan", "Feb", "Mar", "Apr", "May", "Jun", "Jul", "Aug", "Sep", "Oct", "Nov", "Dec">>

(***************************************************************************)
(* The callbacks' value domains.                                           *)
(***************************************************************************)
SqlOk == "SELECT SUM(amount) AS total FROM household_expenses"
SqlBad == "DELETE FROM household_expenses"
SqlFallback == "fallback_sql(question)"
SqlBuilt == "build_query(question).sql"

\* what the authoring call can hand back as "sql" ("" also stands for a nil
\* or malformed payload)
LlmSql == {"", SqlOk, SqlBad}

ValidationReason == "Only SELECT allowed."
ExecErrors == {"relation does not exist", ""}

\* a cell of a result row: a number (int, float) or a text
Num(v) == [num |-> TRUE, v |-> v, text |-> ""]
Text(s) == [num |-> FALSE, v |-> 0, text |-> s]

EmptyResult == [cols |-> <<"total">>, rows |-> <<>>]
ZeroResult == [cols |-> <<"total">>, rows |-> << <<Num(0)>> >>]
DataResult == [cols |-> <<"category", "total">>, rows |-> << <<Text("food"), Num(900)>> >>]
ExecResults == {EmptyResult, ZeroResult, DataResult}

ExcKinds == {"RuntimeError", "Exception"}

Providers == {"openai", "cerebras", "groq"}

FixLabels == <<"sql_fix_1", "sql_fix_2", "sql_fix_3", "sql_fix_4", "sql_fix_5",
               "sql_fix_6", "sql_fix_7", "sql_fix_8">>

\* f"sql_fix_{n}"
FixLabel(n) == FixLabels[n]

VARIABLES
  cfg,          \* the runner's construction arguments and its environment
  pc,           \* position inside run() and the running strategy
  strategy,     \* the strategy that is running
  st,           \* the locals of the running strategy (for the graph: _AgentState)
  result,       \* <<>> or <<r>>: the SQLAgentResult run() returned
  raised,       \* the exception that left run(), or None
  calls,        \* history: the callback invocations of the running strategy
  rounds,       \* history: SQL candidates validated so far in this run()
  last_exec,    \* history: <<>> or <<[cols, rows]>>, the last successful execute
  graph,        \* _AnalysisGraphState and the node of the analysis graph
  query,        \* the candidate SQL handed to validate_safe_sql and _run_sql
  sqlglot_ok,   \* can "import sqlglot" succeed in this deployment?
  verdict,      \* <<>> or <<[ok, reason]>>: what validate_safe_sql returned
  dbs,          \* two database states, queried side by side
  fetched,      \* <<>> or the result of _run_sql on either database state
  fn_call,      \* a helper function called on its own: its name and arguments
  fn_value,     \* <<>> or <<v>>: what that call returned
  environ       \* os.environ of the process: the API keys exported so far

\* the variables outside the orchestrator: the validator, the view and the
\* helper functions
sandbox == <<query, sqlglot_ok, verdict, dbs, fetched, fn_call, fn_value>>

vars == <<cfg, pc, strategy, st, result, raised, calls, rounds, last_exec, graph,
          query, sqlglot_ok, verdict, dbs, fetched, fn_call, fn_value, environ>>

(***************************************************************************)
(* Records.                                                                *)
(***************************************************************************)
SQLAgentAttempt(n, sql, reason, vok, vreason, eok, dberr) ==
  [attempt_number |-> n, generated_sql |-> sql, llm_reason |-> reason,
   validation_ok |-> vok, validation_reason |-> vreason,
   execution_ok |-> eok, db_error |-> dberr]

SQLAgentResult(success, sql, answer, atts, cols, rows, trace, reason) ==
  [success |-> success, final_sql |-> sql, answer |-> answer, attempts |-> atts,
   columns |-> cols, rows |-> rows, tool_trace |-> trace, failure_reason |-> reason]

\* an answer text: its template, the attempt count and the text embedded in it
Answer(kind, n, text) == [kind |-> kind, n |-> n, text |-> text]

\* one callback invocation: the callback, the strategy and attempt that made it,
\* the SQL text it was given, whether it returned, and arg: the error text given
\* to an authoring call in fix mode, or the outcome of an execute or summary
\* call of the two loops
Call(op, strat, att, sql, ok, arg) ==
  [op |-> op, strat |-> strat, att |-> att, sql |-> sql, ok |-> ok, arg |-> arg]

\* the history of callback invocations starts afresh with every strategy
Log(c) == calls' = IF strategy' = strategy THEN Append(calls, c) ELSE <<>>

NoLog == calls' = IF strategy' = strategy THEN calls ELSE <<>>

\* the locals a strategy starts with
Frame ==
  [attempt |-> 0, mode |-> "generate", sql_query |-> "", llm_reason |-> None,
   validation_ok |-> FALSE, validation_reason |-> None,
   execution_ok |-> FALSE, db_error |-> None, cols |-> <<>>, rows |-> <<>>,
   last_error |-> None, fix_from_sql |-> "", fix_from_error |-> "",
   final_sql |-> "", final_cols |-> <<>>, final_rows |-> <<>>,
   attempts |-> <<>>, tool_trace |-> <<>>, tool_calls |-> 0,
   success |-> FALSE, answer |-> Answer("", 0, ""), failure_reason |-> None]

(***************************************************************************)
(* The callbacks.                                                          *)
(***************************************************************************)
\* validate_sql: a pure function of the SQL text
ValidateSql(sql) ==
  IF sql \in cfg.invalid THEN <<FALSE, ValidationReason>> ELSE <<TRUE, "">>

\* llm_json: a payload with an "sql" / "answer" text, nil, or an exception
\* (timeout, transport error); without credentials it never yields a payload
LlmTexts(texts) == IF cfg.api_key = None THEN {""} ELSE texts

LlmOutcomes(texts) ==
  [kind : {"payload"}, text : LlmTexts(texts), exc : {None}]
    \cup [kind : {"raise"}, text : {""}, exc : ExcKinds]

\* execute_sql: columns and rows, or an exception with its message
ExecOutcomes ==
  [kind : {"rows"}, res : ExecResults, err : {None}]
    \cup [kind : {"raise"}, res : {EmptyResult}, err : ExecErrors]

(***************************************************************************)
(* SQLAgentRunner.run: the strategy chosen for the provider and the        *)
(* fallbacks between the strategies.                                       *)
(***************************************************************************)
Goto(p, strat, frame) ==
  /\ pc' = p
  /\ strategy' = strat
  /\ st' = frame
  /\ UNCHANGED <<result, raised>>

ReturnFromRun(r, frame) ==
  /\ pc' = "done"
  /\ result' = <<r>>
  /\ st' = frame
  /\ UNCHANGED <<strategy, raised>>

RaiseFromRun(exc, frame) ==
  /\ pc' = "done"
  /\ raised' = exc
  /\ st' = frame
  /\ UNCHANGED <<strategy, result>>

\* the for loop of _run_sequential starts with idx = 1
EnterSequential == Goto("seq_propose", "sequential", [Frame EXCEPT !.attempt = 1])

\* _run_langgraph raises RuntimeError when langgraph cannot be imported, and
\* run() then takes the sequential loop
EnterLanggraph ==
  IF cfg.langgraph_ok
    THEN Goto("lg_propose", "langgraph", Frame)
    ELSE EnterSequential

EnterLangchain ==
  IF cfg.langchain_ok
    THEN Goto("lc_agent", "langchain",
              [Frame EXCEPT !.tool_trace = <<"tool_select">>,
                            !.llm_reason = "langchain_cerebras_tool_sql"])
    ELSE EnterLanggraph

EnterOpenai ==
  IF cfg.sdk_ok
    THEN Goto("oa_agent", "openai", Frame)
    ELSE EnterSequential

\* the except clauses of run(): does run() catch exc raised by strat?
CaughtByRun(strat, exc) ==
  \/ strat = "openai" /\ exc = "RuntimeError"
  \/ strat = "langchain"
  \/ strat = "langgraph" /\ exc = "RuntimeError"

\* "if result.success: return result" after a tool-calling strategy
ReturnedAsIs(strat, success) ==
  \/ strat \in {"langgraph", "sequential"}
  \/ success

NextStrategy(strat) ==
  IF strat = "langchain" THEN EnterLanggraph ELSE EnterSequential

StrategyReturns(r, frame) ==
  IF ReturnedAsIs(strategy, r.success)
    THEN ReturnFromRun(r, frame)
    ELSE NextStrategy(strategy)

StrategyRaises(exc, frame) ==
  IF CaughtByRun(strategy, exc)
    THEN NextStrategy(strategy)
    ELSE RaiseFromRun(exc, frame)

\* _run_sql_agent_with_executor builds the runner without llm_json,
\* fallback_sql and live_schema_text, which __init__ requires: TypeError
ConstructRunner ==
  /\ pc = "construct"
  /\ IF cfg.wiring = "executor"
       THEN /\ pc' = "done"
            /\ raised' = "TypeError"
            /\ UNCHANGED <<strategy, st, result>>
       ELSE /\ pc' = "run"
            /\ UNCHANGED <<strategy, st, result, raised>>
  /\ NoLog
  /\ UNCHANGED <<sandbox, environ, cfg, rounds, last_exec, graph>>

\* the environment without an API key of either provider
NoKeys == [OPENAI_API_KEY |-> None, CEREBRAS_API_KEY |-> None]

\* "if self.api_key: os.environ[...] = self.api_key", which the tool-calling
\* strategies run after their import guard
ExportedKeys(env, c) ==
  IF c.api_key = None THEN env
  ELSE IF c.provider = "openai" /\ c.sdk_ok
    THEN [env EXCEPT !.OPENAI_API_KEY = c.api_key]
  ELSE IF c.provider = "cerebras" /\ c.langchain_ok
    THEN [env EXCEPT !.CEREBRAS_API_KEY = c.api_key]
  ELSE env

RunStart ==
  /\ pc = "run"
  /\ IF cfg.provider = "openai" THEN EnterOpenai
     ELSE IF cfg.provider = "cerebras" THEN EnterLangchain
     ELSE EnterSequential
  /\ environ' = ExportedKeys(environ, cfg)
  /\ NoLog
  /\ UNCHANGED <<sandbox, cfg, rounds, last_exec, graph>>

(***************************************************************************)
(* _run_sequential                                                         *)
(***************************************************************************)
\* the loop without its guard: the execute callback after every validation
SeqExecutesUnguarded(validation_ok) == TRUE

\* "if validation_ok:" guards the execute callback
SeqExecutes(validation_ok) == validation_ok

\* a failure reason that does not look at the recorded attempts
SeqFailureReasonWithoutAttempts(atts) == "No SQL attempt executed."

\* failure_reason = attempts[-1].db_error if attempts else "No SQL attempt executed."
SeqFailureReason(atts) ==
  IF Len(atts) > 0 THEN atts[Len(atts)].db_error ELSE "No SQL attempt executed."

SeqFailResult(frame) ==
  SQLAgentResult(FALSE, frame.sql_query,
                 Answer("SQL execution failed after", cfg.max_attempts,
                        SeqFailureReason(frame.attempts)),
                 frame.attempts, <<>>, <<>>, frame.tool_trace,
                 SeqFailureReason(frame.attempts))

\* the end of one iteration without success: next idx, or the loop is over
SeqNextIteration(frame) ==
  IF frame.attempt < cfg.max_attempts
    THEN /\ pc' = "seq_propose"
         /\ st' = [frame EXCEPT !.attempt = frame.attempt + 1]
         /\ UNCHANGED <<strategy, result, raised>>
    ELSE StrategyReturns(SeqFailResult(frame), frame)

SeqPropose ==
  /\ pc = "seq_propose"
  /\ \E out \in LlmOutcomes({"", SqlOk, SqlBad}) :
       LET fixing == st.attempt # 1
           trace == Append(st.tool_trace,
                           IF fixing THEN FixLabel(st.attempt) ELSE "sql_generate")
           db_err == PyOr(st.last_error, "unknown execution error")
           frame == [st EXCEPT !.tool_trace = trace,
                               !.sql_query = IF out.text = "" THEN SqlFallback ELSE out.text,
                               !.llm_reason = IF out.text = "" THEN None ELSE "llm reason"]
       IN /\ IF out.kind = "raise"
               THEN StrategyRaises(out.exc, [st EXCEPT !.tool_trace = trace])
               ELSE Goto("seq_validate", strategy, frame)
          /\ Log(Call(IF fixing THEN "llm_fix" ELSE "llm_generate", strategy, st.attempt, IF fixing THEN st.sql_query ELSE "",
                             out.kind = "payload", IF fixing THEN db_err ELSE None))
  /\ UNCHANGED <<sandbox, environ, cfg, rounds, last_exec, graph>>

SeqValidate ==
  /\ pc = "seq_validate"
  /\ LET v == ValidateSql(st.sql_query)
         trace == Append(st.tool_trace, "sql_validate")
         att == SQLAgentAttempt(st.attempt, st.sql_query, st.llm_reason,
                                FALSE, v[2], FALSE, v[2])
     IN /\ IF SeqExecutes(v[1])
             THEN Goto("seq_execute", strategy,
                       [st EXCEPT !.tool_trace = trace, !.validation_ok = v[1],
                                  !.validation_reason = v[2]])
             ELSE SeqNextIteration([st EXCEPT !.tool_trace = trace,
                                              !.validation_ok = v[1],
                                              !.validation_reason = v[2],
                                              !.db_error = v[2],
                                              !.last_error = v[2],
                                              !.attempts = Append(st.attempts, att)])
        /\ Log(Call("validate", strategy, st.attempt, st.sql_query, v[1], None))
  /\ rounds' = rounds + 1
  /\ UNCHANGED <<sandbox, environ, cfg, last_exec, graph>>

SeqExecute ==
  /\ pc = "seq_execute"
  /\ \E out \in ExecOutcomes :
       LET trace == Append(st.tool_trace, "sql_execute")
           ok == out.kind = "rows"
           att == SQLAgentAttempt(st.attempt, st.sql_query, st.llm_reason,
                                  st.validation_ok,
                                  IF st.validation_ok THEN None ELSE st.validation_reason,
                                  ok, IF ok THEN None ELSE out.err)
       IN /\ IF ok
               THEN /\ Goto("seq_answer", strategy,
                            [st EXCEPT !.tool_trace = trace, !.execution_ok = TRUE,
                                       !.cols = out.res.cols, !.rows = out.res.rows,
                                       !.attempts = Append(st.attempts, att)])
                    /\ last_exec' = <<out.res>>
               ELSE /\ SeqNextIteration([st EXCEPT !.tool_trace = trace,
                                                   !.db_error = out.err,
                                                   !.last_error = out.err,
                                                   !.attempts = Append(st.attempts, att)])
                    /\ UNCHANGED last_exec
          /\ Log(Call("execute", strategy, st.attempt, st.sql_query, ok, out))
  /\ UNCHANGED <<sandbox, environ, cfg, rounds, graph>>

\* _build_answer: the summary of the authoring call, else default_answer
BuildAnswer(text) ==
  IF text = "" THEN Answer("default_answer", 0, "") ELSE Answer("llm", 0, text)

SeqAnswer ==
  /\ pc = "seq_answer"
  /\ \E out \in LlmOutcomes({"", "llm summary"}) :
       LET trace == Append(st.tool_trace, "answer_summarize")
           frame == [st EXCEPT !.tool_trace = trace]
       IN /\ IF out.kind = "raise"
               THEN StrategyRaises(out.exc, frame)
               ELSE StrategyReturns(
                      SQLAgentResult(TRUE, st.sql_query, BuildAnswer(out.text),
                                     st.attempts, st.cols, st.rows, trace, None),
                      frame)
          /\ Log(Call("llm_summary", strategy, st.attempt, st.sql_query, out.kind = "payload", out))
  /\ UNCHANGED <<sandbox, environ, cfg, rounds, last_exec, graph>>

(***************************************************************************)
(* _run_langgraph: the nodes of the graph and its conditional edge.        *)
(***************************************************************************)
\* a node that calls the execute callback whatever the validation said
NodeExecutesUnguarded(validation_ok) == TRUE

\* _node_execute_sql returns at once, without the callback, unless validation_ok
NodeExecutes(validation_ok) == validation_ok

\* a conditional edge that looks at the budget before the execution
RouteBudgetFirst(execution_ok, att, max_attempts) ==
  IF att >= max_attempts THEN "summarize_failure"
  ELSE IF execution_ok THEN "summarize_success"
  ELSE "prepare_fix"

\* _route_after_attempt
RouteAfterAttempt(execution_ok, att, max_attempts) ==
  IF execution_ok THEN "summarize_success"
  ELSE IF att >= max_attempts THEN "summarize_failure"
  ELSE "prepare_fix"

\* an error text that leaves out the error of the execution
NodeErrorTextOfValidation(db_error, validation_reason, default) ==
  PyOr(validation_reason, default)

\* str(state.get("db_error") or state.get("validation_reason") or default)
NodeErrorText(db_error, validation_reason, default) ==
  PyOr(PyOr(db_error, validation_reason), default)

LgPropose ==
  /\ pc = "lg_propose"
  /\ \E out \in LlmOutcomes({"", SqlOk, SqlBad}) :
       LET att == st.attempt + 1
           fixing == st.mode = "fix"
           trace == Append(st.tool_trace,
                           IF fixing THEN FixLabel(att) ELSE "sql_generate")
           frame == [st EXCEPT !.attempt = att,
                               !.tool_trace = trace,
                               !.sql_query = IF out.text = "" THEN SqlFallback ELSE out.text,
                               !.llm_reason = IF out.text = "" THEN None ELSE "llm reason"]
       IN /\ IF out.kind = "raise"
               THEN StrategyRaises(out.exc, st)
               ELSE Goto("lg_validate", strategy, frame)
          /\ Log(Call(IF fixing THEN "llm_fix" ELSE "llm_generate", strategy, att, IF fixing THEN st.fix_from_sql ELSE "",
                             out.kind = "payload",
                             IF fixing THEN st.fix_from_error ELSE None))
  /\ UNCHANGED <<sandbox, environ, cfg, rounds, last_exec, graph>>

LgValidate ==
  /\ pc = "lg_validate"
  /\ LET v == ValidateSql(st.sql_query)
     IN /\ Goto("lg_execute", strategy,
                [st EXCEPT !.tool_trace = Append(st.tool_trace, "sql_validate"),
                           !.validation_ok = v[1],
                           !.validation_reason = IF v[1] THEN None ELSE v[2]])
        /\ Log(Call("validate", strategy, st.attempt, st.sql_query, v[1], None))
  /\ rounds' = rounds + 1
  /\ UNCHANGED <<sandbox, environ, cfg, last_exec, graph>>

LgExecute ==
  /\ pc = "lg_execute"
  /\ IF ~NodeExecutes(st.validation_ok)
       THEN /\ Goto("lg_record", strategy,
                    [st EXCEPT !.execution_ok = FALSE,
                               !.db_error = IF st.validation_reason = None
                                              THEN StrNone ELSE st.validation_reason,
                               !.cols = <<>>, !.rows = <<>>])
            /\ NoLog
            /\ UNCHANGED last_exec
       ELSE \E out \in ExecOutcomes :
              LET ok == out.kind = "rows"
                  trace == Append(st.tool_trace, "sql_execute")
              IN /\ last_exec' = IF ok THEN <<out.res>> ELSE last_exec
                 /\ Goto("lg_record", strategy,
                         [st EXCEPT !.tool_trace = trace,
                                    !.execution_ok = ok,
                                    !.db_error = IF ok THEN None ELSE out.err,
                                    !.cols = IF ok THEN out.res.cols ELSE <<>>,
                                    !.rows = IF ok THEN out.res.rows ELSE <<>>])
                 /\ Log(Call("execute", strategy, st.attempt, st.sql_query, ok, out))
  /\ UNCHANGED <<sandbox, environ, cfg, rounds, graph>>

\* _node_record_attempt, followed by the conditional edge
LgRecord ==
  /\ pc = "lg_record"
  /\ LET att == SQLAgentAttempt(st.attempt, st.sql_query, st.llm_reason,
                                st.validation_ok, st.validation_reason,
                                st.execution_ok, st.db_error)
         route == RouteAfterAttempt(st.execution_ok, st.attempt, cfg.max_attempts)
     IN Goto(IF route = "summarize_success" THEN "lg_summarize_success"
             ELSE IF route = "summarize_failure" THEN "lg_summarize_failure"
             ELSE "lg_prepare_fix",
             strategy, [st EXCEPT !.attempts = Append(st.attempts, att)])
  /\ NoLog
  /\ UNCHANGED <<sandbox, environ, cfg, rounds, last_exec, graph>>

LgPrepareFix ==
  /\ pc = "lg_prepare_fix"
  /\ Goto("lg_propose", strategy,
          [st EXCEPT !.mode = "fix",
                     !.fix_from_sql = st.sql_query,
                     !.fix_from_error = NodeErrorText(st.db_error, st.validation_reason,
                                                      "unknown execution error")])
  /\ NoLog
  /\ UNCHANGED <<sandbox, environ, cfg, rounds, last_exec, graph>>

LgSummarizeSuccess ==
  /\ pc = "lg_summarize_success"
  /\ \E out \in LlmOutcomes({"", "llm summary"}) :
       LET trace == Append(st.tool_trace, "answer_summarize")
           frame == [st EXCEPT !.tool_trace = trace, !.success = TRUE,
                               !.final_sql = st.sql_query,
                               !.answer = BuildAnswer(out.text),
                               !.failure_reason = None]
       IN /\ IF out.kind = "raise"
               THEN StrategyRaises(out.exc, st)
               ELSE StrategyReturns(
                      SQLAgentResult(TRUE, frame.final_sql, frame.answer, frame.attempts,
                                     frame.cols, frame.rows, frame.tool_trace,
                                     frame.failure_reason),
                      frame)
          /\ Log(Call("llm_summary", strategy, st.attempt, st.sql_query, out.kind = "payload", out))
  /\ UNCHANGED <<sandbox, environ, cfg, rounds, last_exec, graph>>

LgSummarizeFailure ==
  /\ pc = "lg_summarize_failure"
  /\ LET reason == NodeErrorText(st.db_error, st.validation_reason, "unknown error")
         frame == [st EXCEPT !.success = FALSE,
                             !.final_sql = st.sql_query,
                             !.answer = Answer("SQL execution failed after", st.attempt, reason),
                             !.failure_reason = reason,
                             !.cols = <<>>, !.rows = <<>>]
     IN StrategyReturns(
          SQLAgentResult(FALSE, frame.final_sql, frame.answer, frame.attempts,
                         frame.cols, frame.rows, frame.tool_trace, frame.failure_reason),
          frame)
  /\ NoLog
  /\ UNCHANGED <<sandbox, environ, cfg, rounds, last_exec, graph>>

(***************************************************************************)
(* _run_cerebras_langchain_agent: the agent turn, its run_sql_query tool   *)
(* and _execute_with_repair.                                               *)
(***************************************************************************)
\* "while len(attempts) < max_attempts" and "if len(attempts) >= max_attempts: break"
RepairBudgetLeft(atts, max_attempts) == Len(atts) < max_attempts

\* "if validation_ok:" inside _execute_with_repair
RepairExecutes(validation_ok) == validation_ok

\* success = any(item.execution_ok for item in attempts)
AnyExecutionOk(atts) == \E i \in 1..Len(atts) : atts[i].execution_ok

\* failure_reason = last_error or attempts[-1].db_error or "SQL execution failed."
LcFailureReason(last_err, atts) ==
  PyOr(PyOr(last_err, atts[Len(atts)].db_error), "SQL execution failed.")

\* the model calls run_sql_query(sql)
LcToolCall ==
  /\ pc = "lc_agent"
  /\ cfg.api_key # None
  /\ st.tool_calls < MaxToolCalls
  /\ \E sql \in {"", SqlOk, SqlBad} :
       LET frame == [st EXCEPT !.tool_calls = st.tool_calls + 1,
                               !.tool_trace = Append(st.tool_trace, "sql_generate"),
                               !.sql_query = IF sql = "" THEN SqlFallback ELSE sql]
       IN /\ Goto(IF RepairBudgetLeft(st.attempts, cfg.max_attempts)
                    THEN "lc_validate" ELSE "lc_agent",
                  strategy, frame)
          /\ Log(Call("tool", strategy, Len(st.attempts) + 1, frame.sql_query, TRUE, None))
  /\ UNCHANGED <<sandbox, environ, cfg, rounds, last_exec, graph>>

\* after a failed attempt: stop, or ask the authoring call for a fix
LcAfterFailure(frame) ==
  Goto(IF RepairBudgetLeft(frame.attempts, cfg.max_attempts)
         THEN "lc_fix" ELSE "lc_agent",
       strategy, frame)

LcValidate ==
  /\ pc = "lc_validate"
  /\ LET n == Len(st.attempts) + 1
         v == ValidateSql(st.sql_query)
         trace == Append(st.tool_trace, "sql_validate")
         att == SQLAgentAttempt(n, st.sql_query, st.llm_reason, FALSE, v[2], FALSE, v[2])
     IN /\ IF RepairExecutes(v[1])
             THEN Goto("lc_execute", strategy,
                       [st EXCEPT !.tool_trace = trace, !.validation_ok = v[1],
                                  !.validation_reason = v[2]])
             ELSE LcAfterFailure([st EXCEPT !.tool_trace = trace,
                                            !.validation_ok = v[1],
                                            !.validation_reason = v[2],
                                            !.db_error = v[2],
                                            !.last_error = v[2],
                                            !.attempts = Append(st.attempts, att)])
        /\ Log(Call("validate", strategy, n, st.sql_query, v[1], None))
  /\ rounds' = rounds + 1
  /\ UNCHANGED <<sandbox, environ, cfg, last_exec, graph>>

LcExecute ==
  /\ pc = "lc_execute"
  /\ \E out \in ExecOutcomes :
       LET n == Len(st.attempts) + 1
           ok == out.kind = "rows"
           trace == Append(st.tool_trace, "sql_execute")
           att == SQLAgentAttempt(n, st.sql_query, st.llm_reason, st.validation_ok,
                                  IF st.validation_ok THEN None ELSE st.validation_reason,
                                  ok, IF ok THEN None ELSE out.err)
       IN /\ IF ok
               THEN /\ last_exec' = <<out.res>>
                    /\ Goto("lc_agent", strategy,
                            [st EXCEPT !.tool_trace = trace, !.execution_ok = TRUE,
                                       !.final_sql = st.sql_query,
                                       !.final_cols = out.res.cols,
                                       !.final_rows = out.res.rows,
                                       !.attempts = Append(st.attempts, att)])
               ELSE /\ UNCHANGED last_exec
                    /\ LcAfterFailure([st EXCEPT !.tool_trace = trace,
                                                 !.db_error = out.err,
                                                 !.last_error = out.err,
                                                 !.attempts = Append(st.attempts, att)])
          /\ Log(Call("execute", strategy, n, st.sql_query, ok, None))
  /\ UNCHANGED <<sandbox, environ, cfg, rounds, graph>>

\* the fix request inside the tool; an exception of the authoring call leaves
\* the tool, and the agent framework either reports it to the model or lets it
\* leave agent.ainvoke
LcFix ==
  /\ pc = "lc_fix"
  /\ \E out \in LlmOutcomes({"", SqlOk, SqlBad}), reported \in BOOLEAN :
       LET n == Len(st.attempts) + 1
           trace == Append(st.tool_trace, FixLabel(n))
           db_err == PyOr(st.last_error, "unknown execution error")
       IN /\ IF out.kind = "raise"
               THEN IF reported
                      THEN Goto("lc_agent", strategy, [st EXCEPT !.tool_trace = trace])
                      ELSE StrategyRaises(out.exc, [st EXCEPT !.tool_trace = trace])
               ELSE /\ reported
                    /\ IF out.text = ""
                         THEN Goto("lc_agent", strategy,
                                   [st EXCEPT !.tool_trace = trace,
                                              !.llm_reason = "sql_fix_retry"])
                         ELSE Goto("lc_validate", strategy,
                                   [st EXCEPT !.tool_trace = trace,
                                              !.llm_reason = "llm reason",
                                              !.sql_query = out.text])
          /\ Log(Call("llm_fix", strategy, n, st.sql_query, out.kind = "payload", db_err))
  /\ UNCHANGED <<sandbox, environ, cfg, rounds, last_exec, graph>>

\* agent.ainvoke returns: the result is built from the attempts of the turn
LcFinish ==
  /\ pc = "lc_agent"
  /\ cfg.api_key # None
  /\ \E text \in {"", "agent answer"} :
       IF AnyExecutionOk(st.attempts)
         THEN /\ StrategyReturns(
                   SQLAgentResult(TRUE, st.final_sql,
                                  IF text = "" THEN Answer("default_answer", 0, "")
                                               ELSE Answer("agent", 0, text),
                                  st.attempts, st.final_cols, st.final_rows,
                                  st.tool_trace, None),
                   st)
              /\ NoLog
         ELSE LET fallback_sql == IF st.final_sql = "" THEN SqlFallback ELSE st.final_sql
                  v == ValidateSql(fallback_sql)
                  db_error == IF v[1] THEN "Tool call was not executed." ELSE v[2]
                  missing == Len(st.attempts) = 0
                  atts == IF missing
                            THEN <<SQLAgentAttempt(1, fallback_sql,
                                                   "langchain_agent_missing_tool_call",
                                                   v[1], IF v[1] THEN None ELSE v[2],
                                                   FALSE, db_error)>>
                            ELSE st.attempts
                  last_err == IF missing THEN db_error ELSE st.last_error
                  reason == LcFailureReason(last_err, atts)
                  frame == [st EXCEPT !.attempts = atts, !.last_error = last_err]
              IN /\ text = ""
                 /\ StrategyReturns(
                      SQLAgentResult(FALSE, atts[Len(atts)].generated_sql,
                                     Answer("SQL execution failed after", Len(atts), reason),
                                     atts, <<>>, <<>>, st.tool_trace, reason),
                      frame)
                 /\ IF missing
                      THEN Log(Call("validate_unexecuted", strategy, 1,
                                    fallback_sql, v[1], None))
                      ELSE NoLog
  /\ UNCHANGED <<sandbox, environ, cfg, rounds, last_exec, graph>>

\* agent.ainvoke raises (no credentials, transport error, model error)
LcAgentRaises ==
  /\ pc = "lc_agent"
  /\ \E exc \in ExcKinds : StrategyRaises(exc, st)
  /\ NoLog
  /\ UNCHANGED <<sandbox, environ, cfg, rounds, last_exec, graph>>

(***************************************************************************)
(* _run_openai_agents_sdk: one analyze_expenses tool call of the agent     *)
(* (tool_use_behavior = stop_on_first_tool) and the result built from the  *)
(* tool's output.                                                          *)
(***************************************************************************)
BuiltReason == "intent=...; period=...; category=...; member=..."

\* "if not validation_ok: return {...}" before the execute callback
StructuredQueryExecutes(validation_ok) == validation_ok

\* the dict _run_structured_query returns
ToolPayload(sql, vok, vreason, eok, dberr, res) ==
  [sql |-> sql, validation_ok |-> vok, validation_reason |-> vreason,
   execution_ok |-> eok, db_error |-> dberr, columns |-> res.cols, rows |-> res.rows]

\* reason = db_error or validation_reason or "tool execution failed"
OaFailureReason(db_error, validation_reason) ==
  PyOr(PyOr(db_error, validation_reason), "tool execution failed")

\* the SQLAgentResult built from response.final_output
OaResult(payload) ==
  LET validation_reason == StrOrNone(payload.validation_reason)
      db_error == StrOrNone(payload.db_error)
      atts == <<SQLAgentAttempt(1, payload.sql, BuiltReason, payload.validation_ok,
                                validation_reason, payload.execution_ok, db_error)>>
      reason == OaFailureReason(db_error, validation_reason)
  IN IF ~payload.validation_ok \/ ~payload.execution_ok
       THEN SQLAgentResult(FALSE, payload.sql,
                           Answer("Tool-based analysis failed", 1, reason),
                           atts, <<>>, <<>>,
                           <<"tool_select", "analyze_expenses", "tool_failed">>, reason)
       ELSE SQLAgentResult(TRUE, payload.sql, Answer("build_answer", 0, ""),
                           atts, payload.columns, payload.rows,
                           <<"tool_select", "analyze_expenses", "sql_validate",
                             "sql_execute">>, None)

\* Agent(model=self.model) and Runner.run(agent, question) are given no key:
\* the SDK's client takes OPENAI_API_KEY from the environment of the process
SdkHasKey(env) == env.OPENAI_API_KEY # None

\* the model calls analyze_expenses: build_query, then validate
OaToolCall ==
  /\ pc = "oa_agent"
  /\ SdkHasKey(environ)
  /\ LET v == ValidateSql(SqlBuilt)
         frame == [st EXCEPT !.attempt = 1, !.sql_query = SqlBuilt,
                             !.validation_ok = v[1], !.validation_reason = v[2]]
     IN /\ IF StructuredQueryExecutes(v[1])
             THEN Goto("oa_execute", strategy, frame)
             ELSE StrategyReturns(
                    OaResult(ToolPayload(SqlBuilt, FALSE, v[2], FALSE, v[2],
                                         [cols |-> <<>>, rows |-> <<>>])),
                    frame)
        /\ Log(Call("validate", strategy, 1, SqlBuilt, v[1], None))
  /\ rounds' = rounds + 1
  /\ UNCHANGED <<sandbox, environ, cfg, last_exec, graph>>

OaExecute ==
  /\ pc = "oa_execute"
  /\ \E out \in ExecOutcomes :
       LET ok == out.kind = "rows"
           payload == IF ok
                        THEN ToolPayload(st.sql_query, TRUE, None, TRUE, None, out.res)
                        ELSE ToolPayload(st.sql_query, TRUE, None, FALSE, out.err,
                                         [cols |-> <<>>, rows |-> <<>>])
       IN /\ last_exec' = IF ok THEN <<out.res>> ELSE last_exec
          /\ StrategyReturns(OaResult(payload), [st EXCEPT !.execution_ok = ok])
          /\ Log(Call("execute", strategy, 1, st.sql_query, ok, None))
  /\ UNCHANGED <<sandbox, environ, cfg, rounds, graph>>

\* the run ends without a structured tool output
OaNoToolOutput ==
  /\ pc = "oa_agent"
  /\ SdkHasKey(environ)
  /\ LET v == ValidateSql(SqlFallback)
         db_error == IF v[1] THEN "Tool call result missing." ELSE v[2]
         atts == <<SQLAgentAttempt(1, SqlFallback,
                                   "openai_tool_agent_no_structured_tool_output",
                                   v[1], IF v[1] THEN None ELSE v[2], FALSE, db_error)>>
     IN /\ StrategyReturns(
             SQLAgentResult(FALSE, SqlFallback,
                            Answer("Tool-based analysis failed", 1, db_error),
                            atts, <<>>, <<>>,
                            <<"tool_select", "tool_missing_output">>, db_error),
             [st EXCEPT !.attempts = atts])
        /\ Log(Call("validate_unexecuted", strategy, 1, SqlFallback, v[1], None))
  /\ UNCHANGED <<sandbox, environ, cfg, rounds, last_exec, graph>>

\* Runner.run raises (no credentials, transport error, model error)
OaAgentRaises ==
  /\ pc = "oa_agent"
  /\ \E exc \in ExcKinds : StrategyRaises(exc, st)
  /\ NoLog
  /\ UNCHANGED <<sandbox, environ, cfg, rounds, last_exec, graph>>

(***************************************************************************)
(* The analysis graph of api/analysis.py: resolve_context, run_primary,    *)
(* the conditional edge _graph_should_retry, finalize_primary or           *)
(* run_fallback with _merge_agent_results.                                 *)
(***************************************************************************)
\* the alternatives of the regex (amount|total|sum|spend|value|count)
MetricWords == {"amount", "total", "sum", "spend", "value", "count"}

\* re.search(r"(amount|total|sum|spend|value|count)", str(column), re.IGNORECASE)
IsMetricColumn(column) == \E w \in MetricWords : Contains(Lower(column), w)

\* raw_value in ("", None)
IsBlank(cell) == ~cell.num /\ cell.text \in {"", None}

\* the text is an optional sign, digits and at most one point, with a digit
IsDecimalText(s) ==
  LET body == IF Len(s) > 0 /\ Char(s, 1) \in {"-", "+"} THEN SubSeq(s, 2, Len(s)) ELSE s
  IN /\ \E i \in 1..Len(body) : InString(Char(body, i), Digits)
     /\ \A i \in 1..Len(body) : InString(Char(body, i), Digits) \/ Char(body, i) = "."
     /\ Cardinality({i \in 1..Len(body) : Char(body, i) = "."}) <= 1

\* float(raw_value): [ok |-> it did not raise, zero |-> abs(value) <= 1e-9];
\* the numbers of the model are integers
FloatOf(cell) ==
  IF cell.num THEN [ok |-> TRUE, zero |-> cell.v = 0]
  ELSE LET s == Strip(cell.text)
       IN IF IsDecimalText(s)
            THEN [ok |-> TRUE,
                  zero |-> \A i \in 1..Len(s) : InString(Char(s, i), Digits) => Char(s, i) = "0"]
            ELSE [ok |-> FALSE, zero |-> FALSE]

\* _looks_like_zero_aggregate_result
LooksLikeZeroAggregateResult(r) ==
  LET metric_indexes == {i \in 1..Len(r.columns) : IsMetricColumn(r.columns[i])}
      cells == {<<j, i>> \in (1..Len(r.rows)) \X metric_indexes :
                  i <= Len(r.rows[j]) /\ ~IsBlank(r.rows[j][i])}
  IN /\ r.success
     /\ Len(r.rows) > 0
     /\ Len(r.columns) > 0
     /\ metric_indexes # {}
     /\ \A c \in cells : FloatOf(r.rows[c[1]][c[2]]).ok /\ FloatOf(r.rows[c[1]][c[2]]).zero
     /\ cells # {}

\* the routing without the check of should_fuzzy_retry
GraphShouldRetryUnflagged(primary, should_fuzzy_retry, resolved_question, fallback_question) ==
  IF primary.success /\ Len(primary.rows) > 0
     /\ ~LooksLikeZeroAggregateResult(primary) THEN "use_primary"
  ELSE IF Strip(fallback_question) = ""
          \/ Strip(fallback_question) = Strip(resolved_question)
    THEN "use_primary"
  ELSE "retry_with_fuzzy"

\* _graph_should_retry
GraphShouldRetry(primary, should_fuzzy_retry, resolved_question, fallback_question) ==
  IF ~should_fuzzy_retry THEN "use_primary"
  ELSE IF primary.success /\ Len(primary.rows) > 0
          /\ ~LooksLikeZeroAggregateResult(primary) THEN "use_primary"
  ELSE IF Strip(fallback_question) = ""
          \/ Strip(fallback_question) = Strip(resolved_question)
    THEN "use_primary"
  ELSE "retry_with_fuzzy"

\* a renumbering that starts every list at 1
ReindexAttemptsFromOne(atts, start) ==
  [offset \in 1..Len(atts) |-> [atts[offset] EXCEPT !.attempt_number = offset]]

\* _reindex_attempts
ReindexAttempts(atts, start) ==
  [offset \in 1..Len(atts) |-> [atts[offset] EXCEPT !.attempt_number = start + offset]]

\* a merge that prefers every successful retry, with or without rows
UseFallbackWheneverItSucceeded(primary, fallback) ==
  fallback.success

\* use_fallback of _merge_agent_results
UseFallback(primary, fallback) ==
  \/ fallback.success /\ Len(fallback.rows) > 0
  \/ ~primary.success /\ fallback.success

\* a merge that always hands out the data of the later run
MergeWithDataOfRetry(primary, fallback) ==
  LET chosen == IF UseFallback(primary, fallback) THEN fallback ELSE primary
      first == ReindexAttempts(primary.attempts, 0)
      merged_attempts == first \o ReindexAttempts(fallback.attempts, Len(first))
  IN SQLAgentResult(chosen.success, chosen.final_sql, chosen.answer,
                    IF Len(merged_attempts) > 0 THEN merged_attempts ELSE chosen.attempts,
                    fallback.columns, fallback.rows,
                    primary.tool_trace \o <<"langgraph_fuzzy_retry">> \o fallback.tool_trace,
                    chosen.failure_reason)

\* _merge_agent_results
MergeAgentResults(primary, fallback) ==
  LET chosen == IF UseFallback(primary, fallback) THEN fallback ELSE primary
      first == ReindexAttempts(primary.attempts, 0)
      merged_attempts == first \o ReindexAttempts(fallback.attempts, Len(first))
  IN SQLAgentResult(chosen.success, chosen.final_sql, chosen.answer,
                    IF Len(merged_attempts) > 0 THEN merged_attempts ELSE chosen.attempts,
                    chosen.columns, chosen.rows,
                    primary.tool_trace \o <<"langgraph_fuzzy_retry">> \o fallback.tool_trace,
                    chosen.failure_reason)

NoGraph ==
  [node |-> "none", should_fuzzy_retry |-> FALSE, resolved_question |-> "",
   fallback_question |-> "", primary |-> <<>>, primary_exec |-> <<>>,
   fallback |-> <<>>, final |-> <<>>]

\* what _graph_resolve_context can put into the state: the strict and the
\* fuzzy variant of a question, or the bare (here empty) question twice
Contexts ==
  [should_fuzzy_retry : BOOLEAN, resolved_question : {"strict question"},
   fallback_question : {"fuzzy question"}]
    \cup [should_fuzzy_retry : {FALSE}, resolved_question : {""}, fallback_question : {""}]

\* a fresh runner is built for every run (_run_sql_agent_with_executor)
StartRunner ==
  /\ pc' = "construct"
  /\ strategy' = "none"
  /\ st' = Frame
  /\ result' = <<>>
  /\ raised' = None
  /\ calls' = <<>>
  /\ rounds' = 0

GraphResolveContext ==
  /\ graph.node = "resolve_context"
  /\ \E ctx \in Contexts :
       graph' = [graph EXCEPT !.node = "run_primary",
                              !.should_fuzzy_retry = ctx.should_fuzzy_retry,
                              !.resolved_question = ctx.resolved_question,
                              !.fallback_question = ctx.fallback_question]
  /\ StartRunner
  /\ UNCHANGED <<sandbox, environ, cfg, last_exec>>

\* run_primary has returned: the conditional edge
GraphRoute ==
  /\ graph.node = "run_primary"
  /\ pc = "done"
  /\ result # <<>>
  /\ LET route == GraphShouldRetry(result[1], graph.should_fuzzy_retry,
                                   graph.resolved_question, graph.fallback_question)
         g == [graph EXCEPT !.primary = result, !.primary_exec = last_exec]
     IN IF route = "retry_with_fuzzy"
          THEN /\ graph' = [g EXCEPT !.node = "run_fallback"]
               /\ StartRunner
          ELSE /\ graph' = [g EXCEPT !.node = "finalize_primary"]
               /\ UNCHANGED <<pc, strategy, st, result, raised, calls, rounds>>
  /\ UNCHANGED <<sandbox, environ, cfg, last_exec>>

GraphFinalizePrimary ==
  /\ graph.node = "finalize_primary"
  /\ graph' = [graph EXCEPT !.node = "end", !.final = graph.primary]
  /\ UNCHANGED <<sandbox, environ, cfg, pc, strategy, st, result, raised, calls, rounds, last_exec>>

\* a fallback node with an edge back to run_primary
GraphRunFallbackLoops ==
  /\ graph.node = "run_fallback"
  /\ pc = "done"
  /\ result # <<>>
  /\ graph' = [graph EXCEPT !.node = "run_primary", !.fallback = result]
  /\ StartRunner
  /\ UNCHANGED <<sandbox, environ, cfg, last_exec>>

\* run_fallback: the second run has returned and the results are merged
GraphRunFallback ==
  /\ graph.node = "run_fallback"
  /\ pc = "done"
  /\ result # <<>>
  /\ graph' = [graph EXCEPT !.node = "end",
                            !.fallback = result,
                            !.final = <<MergeAgentResults(graph.primary[1], result[1])>>]
  /\ UNCHANGED <<sandbox, environ, cfg, pc, strategy, st, result, raised, calls, rounds, last_exec>>

\* an exception of the runner leaves the graph
GraphRaises ==
  /\ graph.node \in {"run_primary", "run_fallback"}
  /\ pc = "done"
  /\ raised # None
  /\ graph' = [graph EXCEPT !.node = "raised"]
  /\ UNCHANGED <<sandbox, environ, cfg, pc, strategy, st, result, raised, calls, rounds, last_exec>>

(***************************************************************************)
(* services/analysis/sql_validation.py                                     *)
(***************************************************************************)
FORBIDDEN_SQL_TOKENS ==
  <<"insert ", "update ", "delete ", "drop ", "alter ", "truncate ", "create ",
    "replace ", "attach ", "detach ", "pragma ", "vacuum ", "reindex ", "grant ",
    "revoke ", "copy ", "execute ", "information_schema", "sqlite_master",
    "pg_catalog">>

FORBIDDEN_FUNCTIONS ==
  {"pg_sleep", "dblink_connect", "dblink_exec", "pg_read_file", "lo_import"}

\* the node types _validate_with_sqlglot looks for with tree.find
ForbiddenNodes == {"Insert", "Update", "Delete", "Create", "Drop", "Alter", "Command"}

\* sorted(names): the names of the model in alphabetical order
Alphabetical ==
  <<"d", "expenses", "household_expenses", "other.household_expenses", "t", "users">>

RECURSIVE JoinFrom(_, _, _)
JoinFrom(names, i, sep) ==
  IF i > Len(Alphabetical) THEN ""
  ELSE IF Alphabetical[i] \in names
    THEN sep \o Alphabetical[i] \o JoinFrom(names, i + 1, ", ")
    ELSE JoinFrom(names, i + 1, sep)

\* ", ".join(sorted(names))
JoinSorted(names) == JoinFrom(names, 1, "")

\* the regex  \b(?:from|join)\s+([a-zA-Z_][\w\.]*)  matched at position i:
\* <<first, last>> of group 1, or <<>>
RefMatchAt(s, i) ==
  LET name == SkipSpaces(s, i + 4)
  IN IF /\ i + 3 <= Len(s)
        /\ SubSeq(s, i, i + 3) \in {"from", "join"}
        /\ (i = 1 \/ ~IsWordChar(Char(s, i - 1)))
        /\ name > i + 4
        /\ name <= Len(s)
        /\ IsIdentStart(Char(s, name))
       THEN <<name, IdentEnd(s, name)>>
       ELSE <<>>

RECURSIVE FindRefs(_, _)
\* re.findall of that regex from position i on: the matches do not overlap
FindRefs(s, i) ==
  LET at == {p \in i..Len(s) : RefMatchAt(s, p) # <<>>}
  IN IF at = {} THEN {}
     ELSE LET m == RefMatchAt(s, CHOOSE p \in at : \A o \in at : p <= o)
          IN {SubSeq(s, m[1], m[2])} \cup FindRefs(s, m[2] + 1)

\* select\s+.+\s+from\s+  matched at position i (re.DOTALL)
SelectFromAt(s, i) ==
  /\ i + 6 <= Len(s)
  /\ SubSeq(s, i, i + 5) = "select"
  /\ IsSpace(Char(s, i + 6))
  /\ \E f \in (i + 9)..(Len(s) - 4) :
       /\ IsSpace(Char(s, f - 1))
       /\ SubSeq(s, f, f + 3) = "from"
       /\ IsSpace(Char(s, f + 4))

\* with\s+.+\s+select\s+.+\s+from\s+  matched at position i
WithSelectFromAt(s, i) ==
  /\ i + 4 <= Len(s)
  /\ SubSeq(s, i, i + 3) = "with"
  /\ IsSpace(Char(s, i + 4))
  /\ \E g \in (i + 7)..Len(s) : IsSpace(Char(s, g - 1)) /\ SelectFromAt(s, g)

\* re.search(r"^\s*(select\s+.+\s+from\s+|with\s+.+\s+select\s+.+\s+from\s+)", low)
LooksLikeSelect(low) ==
  LET i == SkipSpaces(low, 1)
  IN SelectFromAt(low, i) \/ WithSelectFromAt(low, i)

\* the except branch of _validate_with_sqlglot: sqlglot cannot be imported
ValidateWithoutSqlglot(q, allowed_tables) ==
  LET low == Lower(q)
  IN IF StartsWith(Strip(low), "select from ") THEN <<FALSE, "SQL validation failed.">>
     ELSE IF ~LooksLikeSelect(low) THEN <<FALSE, "SQL validation failed.">>
     ELSE IF \E r \in FindRefs(low, 1) : r \notin allowed_tables
       THEN <<FALSE, "Table validation failed.">>
     ELSE <<TRUE, "">>

\* _validate_with_sqlglot on the tree that sqlglot.parse_one returned
ValidateTree(tree, allowed_tables) ==
  LET unknown == {t \in tree.tables : t \notin allowed_tables}
      forbidden == {f \in tree.anonymous : f \in FORBIDDEN_FUNCTIONS}
  IN IF tree.error # "" THEN <<FALSE, "SQL parse error: " \o tree.error>>
     ELSE IF tree.nodes \cap ForbiddenNodes # {}
       THEN <<FALSE, "Only SELECT statements are allowed.">>
     ELSE IF unknown # {}
       THEN <<FALSE, "Disallowed table reference: " \o JoinSorted(unknown) \o ".">>
     ELSE IF "Select" \notin tree.nodes
       THEN <<FALSE, "Only SELECT statements are allowed.">>
     ELSE IF tree.empty_select THEN <<FALSE, "SELECT list cannot be empty.">>
     ELSE IF forbidden # {}
       THEN <<FALSE, "Forbidden function: " \o (CHOOSE f \in forbidden : TRUE) \o ".">>
     ELSE <<TRUE, "">>

\* _validate_with_sqlglot
ValidateWithSqlglot(q, tree, importable, allowed_tables) ==
  IF importable THEN ValidateTree(tree, allowed_tables)
                ELSE ValidateWithoutSqlglot(q, allowed_tables)

\* the first entry of FORBIDDEN_SQL_TOKENS that occurs in f"{low} "
ForbiddenTokenIn(low) ==
  LET hits == {i \in 1..Len(FORBIDDEN_SQL_TOKENS) :
                 Contains(low \o " ", FORBIDDEN_SQL_TOKENS[i])}
  IN IF hits = {} THEN ""
     ELSE FORBIDDEN_SQL_TOKENS[CHOOSE i \in hits : \A j \in hits : i <= j]

\* validate_safe_sql(query, allowed_tables=...); tree is what sqlglot.parse_one
\* makes of the stripped query
validate_safe_sql(sql, tree, importable, allowed_tables) ==
  LET q == Strip(sql)
      low == Lower(q)
      token == ForbiddenTokenIn(low)
      ast == ValidateWithSqlglot(q, tree, importable, allowed_tables)
  IN IF q = "" THEN <<FALSE, "Empty SQL.">>
     ELSE IF Contains(q, ";") THEN <<FALSE, "Semicolon not allowed.">>
     ELSE IF ~(StartsWith(low, "select ") \/ StartsWith(low, "with "))
       THEN <<FALSE, "Only SELECT allowed.">>
     ELSE IF token # "" THEN <<FALSE, "Forbidden token: " \o Strip(token) \o ".">>
     ELSE IF ~ast[1] THEN ast
     ELSE IF \E r \in FindRefs(low, 1) : r \notin allowed_tables
       THEN <<FALSE, "Only these tables are allowed: " \o JoinSorted(allowed_tables) \o ".">>
     ELSE <<TRUE, "">>

(***************************************************************************)
(* Candidate SQL.  Each candidate is its text, which is all the repository *)
(* code looks at, together with what the SQL tools outside the repository  *)
(* make of that text: the tree of sqlglot.parse_one(text, read="postgres") *)
(* (node types found, names of the Table nodes, an empty projection, the   *)
(* names of the Anonymous function calls) and the relations PostgreSQL     *)
(* reads when it runs the text ("runs" is false if it refuses to).         *)
(***************************************************************************)
Tree(error, nodes, tables, empty_select, anonymous) ==
  [error |-> error, nodes |-> nodes, tables |-> tables,
   empty_select |-> empty_select, anonymous |-> anonymous]

\* a parsed SELECT statement over the tables
SelectTree(tables) == Tree("", {"Select"}, tables, FALSE, {})

\* plain_select: a syntactically valid single SELECT statement whose only
\* table reference is household_expenses
Candidate(sql, plain_select, reads, runs, tree) ==
  [sql |-> sql, plain_select |-> plain_select, reads |-> reads, runs |-> runs,
   tree |-> tree]

View == "household_expenses"

Candidates ==
  { Candidate("SELECT category, SUM(amount) AS total FROM household_expenses GROUP BY category",
              TRUE, {View}, TRUE, SelectTree({View})),
    Candidate("  select amount from household_expenses where amount > 100\n",
              TRUE, {View}, TRUE, SelectTree({View})),
    Candidate("   ", FALSE, {}, FALSE, Tree("No expression was parsed", {}, {}, FALSE, {})),
    Candidate("DELETE FROM household_expenses",
              FALSE, {View}, FALSE, Tree("", {"Delete"}, {View}, FALSE, {})),
    Candidate("SELECT * FROM household_expenses; DROP TABLE expenses",
              FALSE, {View, "expenses"}, FALSE,
              Tree("", {"Select"}, {View}, FALSE, {})),
    Candidate("EXPLAIN SELECT amount FROM household_expenses",
              FALSE, {View}, FALSE, Tree("", {"Command"}, {}, FALSE, {})),
    Candidate("SELECT * FROM information_schema.tables",
              FALSE, {"information_schema.tables"}, TRUE, SelectTree({"tables"})),
    Candidate("SELECT FROM household_expenses",
              FALSE, {View}, TRUE, Tree("", {"Select"}, {View}, TRUE, {})),
    Candidate("SELECT * FROM users",
              FALSE, {"users"}, TRUE, SelectTree({"users"})),
    Candidate("SELECT e.amount FROM household_expenses e JOIN users u ON u.id = e.logged_by_user_id",
              FALSE, {View, "users"}, TRUE, SelectTree({View, "users"})),
    Candidate("SELECT amount FROM (SELECT * FROM expenses) t",
              FALSE, {"expenses"}, TRUE, SelectTree({"expenses"})),
    Candidate("WITH t AS (SELECT * FROM household_expenses) SELECT amount FROM t",
              FALSE, {View}, TRUE, SelectTree({View, "t"})),
    Candidate("SELECT * FROM other.household_expenses",
              FALSE, {"other.household_expenses"}, FALSE, SelectTree({View})),
    Candidate("SELECT amount FROM \"expenses\"",
              FALSE, {"expenses"}, TRUE, SelectTree({"expenses"})),
    Candidate("SELECT count(*) AS n FROM household_expenses, users",
              FALSE, {View, "users"}, TRUE, SelectTree({View, "users"})),
    Candidate("WITH d AS (DELETE\tFROM household_expenses RETURNING *) SELECT count(*) FROM household_expenses",
              FALSE, {View}, FALSE,
              Tree("", {"Select", "Delete"}, {View}, FALSE, {})),
    Candidate("SELECT category FROM household_expenses WHERE description = 'drop\ttable'",
              TRUE, {View}, TRUE, SelectTree({View})),
    Candidate("SELECT MAX(updated_at) AS last_update FROM household_expenses",
              TRUE, {View}, TRUE, SelectTree({View})),
    Candidate("SELECT\n  category\nFROM household_expenses",
              TRUE, {View}, TRUE, SelectTree({View})),
    Candidate("SELECT pg_sleep(10) FROM household_expenses",
              TRUE, {View}, TRUE, Tree("", {"Select"}, {View}, FALSE, {"pg_sleep"})) }

\* the keywords of the statements that write or change the schema
WriteKeywords ==
  {"insert", "update", "delete", "drop", "alter", "truncate", "create"}

\* the text holds a write or DDL keyword followed by a whitespace character
HasWriteKeyword(sql) ==
  \E k \in WriteKeywords, w \in Whitespace : Contains(Lower(sql), k \o w)

(***************************************************************************)
(* The database and the sandboxed view (api/analysis.py).                  *)
(***************************************************************************)
Household == "H"
OtherHousehold == "G"

\* rows of the tables expenses and users
OwnExpense == [id |-> "e1", household_id |-> Household, logged_by_user_id |-> "u1", amount |-> 900]
OtherExpense == [id |-> "e2", household_id |-> OtherHousehold, logged_by_user_id |-> "u2", amount |-> 5]
OwnUser == [id |-> "u1", household_id |-> Household, full_name |-> "Asha"]
OtherUser == [id |-> "u2", household_id |-> OtherHousehold, full_name |-> "Ben"]

\* the database states: the records of Household, and any records of others
Databases ==
  [expenses : {{OwnExpense} \cup x : x \in SUBSET {OtherExpense}},
   users : {{OwnUser} \cup x : x \in SUBSET {OtherUser}}]

\* the records of one household in a database state
RecordsOf(db, household_id) ==
  [expenses |-> {e \in db.expenses : e.household_id = household_id},
   users |-> {u \in db.users : u.household_id = household_id}]

\* COALESCE(u.full_name, 'Unknown') over the LEFT JOIN
LoggedBy(db, e) ==
  IF \E u \in db.users : u.id = e.logged_by_user_id
    THEN (CHOOSE u \in db.users : u.id = e.logged_by_user_id).full_name
    ELSE "Unknown"

\* HOUSEHOLD_CTE: the rows of household_expenses for :household_id
HOUSEHOLD_CTE(db, household_id) ==
  { [expense_id |-> e.id, household_id |-> e.household_id,
     logged_by_user_id |-> e.logged_by_user_id, logged_by |-> LoggedBy(db, e),
     amount |-> e.amount] :
      e \in {x \in db.expenses : x.household_id = household_id} }

\* what a relation name of the wrapped statement resolves to: the CTE hides
\* nothing but its own name
Relation(name, db, household_id) ==
  IF name = View THEN HOUSEHOLD_CTE(db, household_id)
  ELSE IF name = "expenses" THEN db.expenses
  ELSE IF name = "users" THEN db.users
  ELSE {}

\* _run_sql: the statement wrapped into the CTE and run by the database; what
\* it returns is made of the relations it reads
RunSqlOn(candidate, db, household_id) ==
  IF candidate.runs /\ candidate.reads \subseteq {View, "expenses", "users"}
    THEN [error |-> FALSE,
          data |-> [name \in candidate.reads |-> Relation(name, db, household_id)]]
    ELSE [error |-> TRUE, data |-> <<>>]

\* _safe_sql
SafeSqlOf(candidate, importable) ==
  validate_safe_sql(candidate.sql, candidate.tree, importable, {View})

\* the validate callback: _build_sql_validator / _safe_sql
SafeSql ==
  /\ verdict = <<>>
  /\ LET v == SafeSqlOf(query, sqlglot_ok)
     IN verdict' = <<[ok |-> v[1], reason |-> v[2]]>>
  /\ UNCHANGED <<query, sqlglot_ok, dbs, fetched, fn_call, fn_value>>
  /\ UNCHANGED <<cfg, pc, strategy, st, result, raised, calls, rounds, last_exec, graph,
               environ>>

\* the execute callback: _run_sql on the validated statement, for either state
RunSql ==
  /\ verdict # <<>>
  /\ verdict[1].ok
  /\ fetched = <<>>
  /\ fetched' = <<RunSqlOn(query, dbs[1], Household), RunSqlOn(query, dbs[2], Household)>>
  /\ UNCHANGED <<query, sqlglot_ok, verdict, dbs, fn_call, fn_value>>
  /\ UNCHANGED <<cfg, pc, strategy, st, result, raised, calls, rounds, last_exec, graph,
               environ>>

\* no helper function is called on its own
FunctionsIdle ==
  /\ fn_call = [fn |-> "none"]
  /\ fn_value = <<>>
  /\ environ = NoKeys

\* the validator and the view outside a run: nothing asked yet
SandboxIdle ==
  /\ FunctionsIdle
  /\ query = Candidate("", FALSE, {}, FALSE, SelectTree({}))
  /\ sqlglot_ok = FALSE
  /\ verdict = <<>>
  /\ dbs = <<>>
  /\ fetched = <<>>

(***************************************************************************)
(* services/analysis/category_taxonomy.py                                  *)
(***************************************************************************)
\* the canonical categories with their subcategories, in the order of the dict
CATEGORY_TAXONOMY ==
  <<
    [name |-> "food",
     items |-> <<"groceries", "fruits_vegetables", "dairy_bakery", "dining_out", "coffee_tea",
                 "snacks", "delivery_fees", "other">>],
    [name |-> "transport",
     items |-> <<"fuel", "public_transport", "cab_ride_hailing", "parking", "tolls",
                 "vehicle_service", "other">>],
    [name |-> "housing",
     items |-> <<"rent", "maintenance_hoa", "property_tax", "repairs_service", "cleaning",
                 "furnishing", "other">>],
    [name |-> "utilities",
     items |-> <<"electricity", "water", "gas", "internet_broadband", "mobile_phone", "tv_dth",
                 "other">>],
    [name |-> "health",
     items |-> <<"medicines", "doctor_consultation", "diagnostics_labs", "insurance_health",
                 "fitness_gym", "other">>],
    [name |-> "education",
     items |-> <<"books", "courses", "online_subscriptions", "exam_fees", "workshops", "other">>],
    [name |-> "family_kids",
     items |-> <<"school_fees", "daycare", "toys_games", "clothes", "events_birthdays",
                 "other">>],
    [name |-> "entertainment",
     items |-> <<"movies_events", "streaming_subscriptions", "games_apps", "outing", "other">>],
    [name |-> "shopping",
     items |-> <<"clothing", "footwear", "accessories", "electronics_gadgets", "appliances",
                 "home_decor", "other">>],
    [name |-> "subscriptions",
     items |-> <<"saas_tools", "cloud_ai", "newsletters", "music_video", "storage_backup",
                 "other">>],
    [name |-> "personal_care",
     items |-> <<"salon_spa", "grooming", "cosmetics", "hygiene", "other">>],
    [name |-> "gifts_donations",
     items |-> <<"gifts_personal", "charity_donation", "festivals", "other">>],
    [name |-> "finance_fees",
     items |-> <<"bank_charges", "late_fees", "interest", "brokerage", "other">>],
    [name |-> "business",
     items |-> <<"software_tools", "hosting_domains", "marketing_ads", "contractor_payments",
                 "travel_business", "office_supplies", "other">>],
    [name |-> "travel",
     items |-> <<"flights", "hotels", "train_bus", "visa_passport", "local_transport",
                 "food_travel", "other">>],
    [name |-> "home",
     items |-> <<"household_supplies", "cleaning_supplies", "kitchenware", "small_repairs",
                 "pest_control", "other">>],
    [name |-> "pet",
     items |-> <<"food", "vet", "grooming", "supplies", "other">>],
    [name |-> "taxes",
     items |-> <<"income_tax", "gst", "professional_tax", "filing_fees", "other">>],
    [name |-> "investments",
     items |-> <<"mutual_funds", "stocks", "fd_rd", "gold", "crypto", "brokerage_fees",
                 "other">>],
    [name |-> "misc",
     items |-> <<"uncategorized", "rounding", "other">>]
  >>

\* the canonical categories with their aliases, in the order of the dict
MANUAL_ALIASES ==
  <<
    [name |-> "food",
     items |-> <<"grocery", "meal", "meals", "restaurant", "dining", "lunch", "dinner">>],
    [name |-> "transport",
     items |-> <<"uber", "ola", "cab", "taxi", "petrol", "diesel", "commute">>],
    [name |-> "shopping",
     items |-> <<"purchase", "buy", "bought", "mall">>],
    [name |-> "health",
     items |-> <<"medical", "hospital", "clinic">>],
    [name |-> "housing",
     items |-> <<"home_rent", "house_rent">>]
  >>

\* the members of a sequence
Range(seq) == {seq[i] : i \in 1..Len(seq)}

\* [a-z0-9]
IsTokenChar(c) == InString(c, LowerCase) \/ InString(c, Digits)

RECURSIVE SubNonToken(_, _, _)
\* re.sub(r"[^a-z0-9]+", "_", s) on the positions a..b: a character of a token
\* stays, a run of other characters becomes one "_"
SubNonToken(s, a, b) ==
  IF a > b THEN ""
  ELSE IF a = b
    THEN IF IsTokenChar(Char(s, a)) THEN Char(s, a)
         ELSE IF a > 1 /\ ~IsTokenChar(Char(s, a - 1)) THEN ""
         ELSE "_"
  ELSE SubNonToken(s, a, (a + b) \div 2) \o SubNonToken(s, ((a + b) \div 2) + 1, b)

\* str.strip(c)
StripChar(s, c) ==
  LET solid == {i \in 1..Len(s) : Char(s, i) # c}
  IN IF solid = {} THEN ""
     ELSE SubSeq(s, CHOOSE i \in solid : \A j \in solid : i <= j,
                    CHOOSE i \in solid : \A j \in solid : i >= j)

\* normalize_category_token
normalize_category_token(value) == StripChar(SubNonToken(Lower(Strip(value)), 1, Len(Strip(value))), "_")

\* the characters of the terms in the order of their code points
CodePoints == "0123456789_abcdefghijklmnopqrstuvwxyz"

CodePoint(c) == CHOOSE i \in 1..Len(CodePoints) : Char(CodePoints, i) = c

RECURSIVE StrLess(_, _)
\* a < b on str
StrLess(a, b) ==
  IF b = "" THEN FALSE
  ELSE IF a = "" THEN TRUE
  ELSE IF Char(a, 1) = Char(b, 1) THEN StrLess(SubSeq(a, 2, Len(a)), SubSeq(b, 2, Len(b)))
  ELSE CodePoint(Char(a, 1)) < CodePoint(Char(b, 1))

RECURSIVE Sorted(_)
\* sorted(terms) of a set of str
Sorted(terms) ==
  IF terms = {} THEN <<>>
  ELSE LET least == CHOOSE t \in terms : \A o \in terms \ {t} : StrLess(t, o)
       IN <<least>> \o Sorted(terms \ {least})

\* the terms that one table (taxonomy or aliases) adds for the token
TermsOfTable(token, entries) ==
  UNION { LET normalized_canonical == normalize_category_token(entries[k].name)
              normalized_items == {normalize_category_token(item) :
                                     item \in Range(entries[k].items)}
          IN IF token = normalized_canonical \/ token \in normalized_items
               THEN {normalized_canonical} \cup normalized_items
               ELSE {}
          : k \in 1..Len(entries) }

RECURSIVE WithHouseholdCategories(_, _, _, _)
\* the loop over household_categories from item i on
WithHouseholdCategories(terms, token, household_categories, i) ==
  IF i > Len(household_categories) THEN terms
  ELSE LET normalized_item == normalize_category_token(household_categories[i])
       IN WithHouseholdCategories(
            IF /\ normalized_item # ""
               /\ \/ normalized_item \in terms
                  \/ Contains(normalized_item, token)
                  \/ Contains(token, normalized_item)
              THEN terms \cup {normalized_item} ELSE terms,
            token, household_categories, i + 1)

\* an expansion that keeps to the canonical names
TermsWithoutSubcategories(token) ==
  {token} \cup TermsOfTable(token, MANUAL_ALIASES)

\* terms of expand_category_terms before the household's categories
TermsOfToken(token) ==
  {token} \cup TermsOfTable(token, CATEGORY_TAXONOMY) \cup TermsOfTable(token, MANUAL_ALIASES)

\* expand_category_terms; raw_category is None or a str
expand_category_terms(raw_category, household_categories) ==
  IF Falsy(raw_category) THEN <<>>
  ELSE LET token == normalize_category_token(raw_category)
       IN IF token = "" THEN <<>>
          ELSE Sorted(WithHouseholdCategories(TermsOfToken(token), token,
                                              household_categories, 1) \ {""})

\* resolve_member_name; raw_member is None or a str
resolve_member_name(raw_member, household_members) ==
  IF Falsy(raw_member) THEN None
  ELSE
    LET needle == Lower(Strip(raw_member))
        members == SelectSeq([i \in 1..Len(household_members) |-> Strip(household_members[i])],
                             LAMBDA m : m # "")
        exact == SelectSeq(members, LAMBDA m : Lower(m) = needle)
        contains == SelectSeq(members,
                              LAMBDA m : Contains(Lower(m), needle) \/ Contains(needle, Lower(m)))
    IN IF needle = "" THEN None
       ELSE IF Len(members) = 0 THEN Strip(raw_member)
       ELSE IF Len(exact) > 0 THEN exact[1]
       ELSE IF Len(contains) > 0 THEN contains[1]
       ELSE Strip(raw_member)

(***************************************************************************)
(* services/analysis/tool_query_engine.py                                  *)
(***************************************************************************)
\* the number words of NUMBER_TOKEN_REGEX in the order of its alternatives;
\* NUMBER_WORDS maps the k-th of them to k - 1
NUMBER_WORDS ==
  <<"zero", "one", "two", "three", "four", "five", "six", "seven", "eight", "nine", "ten",
    "eleven", "twelve", "thirteen", "fourteen", "fifteen", "sixteen", "seventeen",
    "eighteen", "nineteen", "twenty">>

\* the last positions of the texts that NUMBER_TOKEN_REGEX can match at
\* position t, in the order in which the regex tries them
NumberTokenEnds(s, t) ==
  LET run == DigitsEnd(s, t) - t + 1
      words == SelectSeq([k \in 1..Len(NUMBER_WORDS) |->
                           IF LiteralAt(s, t, NUMBER_WORDS[k])
                             THEN t + Len(NUMBER_WORDS[k]) - 1 ELSE 0],
                         LAMBDA e : e # 0)
  IN (IF run >= 2 THEN <<t + 1, t>> ELSE IF run = 1 THEN <<t>> ELSE <<>>) \o words

\* \s+unit matches from position a on ("" for a pattern that ends with the token)
UnitFollows(s, a, unit) ==
  unit = "" \/ (SkipSpaces(s, a) > a /\ LiteralAt(s, SkipSpaces(s, a), unit))

\* head\s+(NUMBER_TOKEN_REGEX)[\s+unit] matched at position i: the text of
\* group 1, or ""
NumberPhraseAt(s, i, heads, unit) ==
  LET fitting == {h \in heads : LiteralAt(s, i, h)}
  IN IF fitting = {} THEN ""
     ELSE LET after_head == i + Len(CHOOSE h \in fitting : TRUE)
              t == SkipSpaces(s, after_head)
              ends == SelectSeq(NumberTokenEnds(s, t), LAMBDA e : UnitFollows(s, e + 1, unit))
          IN IF t > after_head /\ Len(ends) > 0 THEN SubSeq(s, t, ends[1]) ELSE ""

\* _extract_number for the pattern head\s+(NUMBER_TOKEN_REGEX)[\s+unit]:
\* <<n>> or <<>> for None
ExtractNumber(heads, unit, text_value) ==
  LET s == Lower(text_value)
      starts == {i \in 1..Len(s) : NumberPhraseAt(s, i, heads, unit) # ""}
  IN IF starts = {} THEN <<>>
     ELSE LET first == CHOOSE i \in starts : \A o \in starts : i <= o
              token == Lower(Strip(NumberPhraseAt(s, first, heads, unit)))
          IN IF IsDigits(token) THEN <<IntOf(token)>>
             ELSE <<(CHOOSE k \in 1..Len(NUMBER_WORDS) : NUMBER_WORDS[k] = token) - 1>>

\* a or b or c on an optional and two plain ints
FirstTruthy(optional, b, c) ==
  IF optional # <<>> /\ optional[1] # 0 THEN optional[1] ELSE IF b # 0 THEN b ELSE c

\* _clamp
Clamp(value, min_v, max_v) ==
  LET raised_to_min == IF value > min_v THEN value ELSE min_v
  IN IF raised_to_min < max_v THEN raised_to_min ELSE max_v

\* _escape_sql_literal
EscapeSqlLiteral(value) == Replace(value, "'", "''")

\* _first_day_of_month
FirstDayOfMonth(value) == Date(value.year, value.month, 1)

\* _shift_months (// and % floor, and so do \div and % here)
ShiftMonths(value, delta_months) ==
  LET month_index == (value.month - 1) + delta_months
  IN Date(value.year + (month_index \div 12), (month_index % 12) + 1, 1)

\* _last_day_of_month
LastDayOfMonth(value) == AddDays(ShiftMonths(FirstDayOfMonth(value), 1), 0 - 1)

Intents == {"total_spend", "category_breakdown", "member_breakdown", "top_expenses",
            "monthly_trend"}

\* a classification that always keeps a valid explicit intent
InferIntentKeepingExplicit(question, explicit_intent) ==
  LET explicit == Lower(Strip(IF Falsy(explicit_intent) THEN "" ELSE explicit_intent))
      q == Lower(question)
  IN IF explicit \in Intents THEN explicit
     ELSE IF Contains(q, "how much") \/ Contains(q, "total") \/ Contains(q, "sum")
       THEN "total_spend"
     ELSE IF /\ \/ Contains(q, "top ") \/ Contains(q, "largest")
                \/ Contains(q, "highest") \/ Contains(q, "biggest")
             /\ Contains(q, "expense")
       THEN "top_expenses"
     ELSE IF Contains(q, "trend") \/ Contains(q, "month over month") \/ Contains(q, "over time")
       THEN "monthly_trend"
     ELSE IF \E token \in {"who", "member", "by user", "by person", "spent most"} :
               Contains(q, token)
       THEN "member_breakdown"
     ELSE IF Contains(q, "category") \/ Contains(q, "breakdown") THEN "category_breakdown"
     ELSE "total_spend"

\* infer_intent; explicit_intent is None or a str
infer_intent(question, explicit_intent) ==
  LET explicit == Lower(Strip(IF Falsy(explicit_intent) THEN "" ELSE explicit_intent))
      q == Lower(question)
      asks_total == Contains(q, "how much") \/ Contains(q, "total") \/ Contains(q, "sum")
  IN IF explicit \in Intents
       THEN IF explicit = "category_breakdown" /\ asks_total THEN "total_spend" ELSE explicit
     ELSE IF asks_total THEN "total_spend"
     ELSE IF /\ \/ Contains(q, "top ") \/ Contains(q, "largest")
                \/ Contains(q, "highest") \/ Contains(q, "biggest")
             /\ Contains(q, "expense")
       THEN "top_expenses"
     ELSE IF Contains(q, "trend") \/ Contains(q, "month over month") \/ Contains(q, "over time")
       THEN "monthly_trend"
     ELSE IF \E token \in {"who", "member", "by user", "by person", "spent most"} :
               Contains(q, token)
       THEN "member_breakdown"
     ELSE IF Contains(q, "category") \/ Contains(q, "breakdown") THEN "category_breakdown"
     ELSE "total_spend"

PeriodBounds(start, end, label) == [start |-> start, end |-> end, label |-> label]

\* _resolve_period_bounds; a bound is <<date>> or <<>> for None
ResolvePeriodBounds(period, reference_date) ==
  LET period_key == Lower(Strip(period))
      Back(n) == AddDays(reference_date, 0 - n)
      last_month == ShiftMonths(FirstDayOfMonth(reference_date), 0 - 1)
  IN CASE period_key = "today" -> PeriodBounds(<<reference_date>>, <<reference_date>>, "Today")
       [] period_key = "yesterday" -> PeriodBounds(<<Back(1)>>, <<Back(1)>>, "Yesterday")
       [] period_key = "this_week" ->
            PeriodBounds(<<Back(Weekday(reference_date))>>, <<reference_date>>, "This week")
       [] period_key = "last_7_days" ->
            PeriodBounds(<<Back(6)>>, <<reference_date>>, "Last 7 days")
       [] period_key = "last_30_days" ->
            PeriodBounds(<<Back(29)>>, <<reference_date>>, "Last 30 days")
       [] period_key = "last_60_days" ->
            PeriodBounds(<<Back(59)>>, <<reference_date>>, "Last 60 days")
       [] period_key = "last_90_days" ->
            PeriodBounds(<<Back(89)>>, <<reference_date>>, "Last 90 days")
       [] period_key = "last_month" ->
            PeriodBounds(<<last_month>>, <<LastDayOfMonth(last_month)>>, "Last month")
       [] period_key = "this_year" ->
            PeriodBounds(<<Date(reference_date.year, 1, 1)>>, <<reference_date>>, "This year")
       [] period_key = "all_time" -> PeriodBounds(<<>>, <<>>, "All time")
       [] OTHER -> PeriodBounds(<<FirstDayOfMonth(reference_date)>>,
                                <<LastDayOfMonth(reference_date)>>, "This month")

\* the period that _infer_period_from_question reads in the lowered question q,
\* given the numbers of days and of months it has extracted
PeriodOfCounts(q, current_period, day_count, month_count) ==
  IF Contains(q, "today") THEN "today"
  ELSE IF Contains(q, "yesterday") THEN "yesterday"
  ELSE IF Contains(q, "this week") THEN "this_week"
  ELSE IF Contains(q, "this year") THEN "this_year"
  ELSE IF Contains(q, "all time") THEN "all_time"
  ELSE IF Contains(q, "last month") \/ Contains(q, "past month") THEN "last_month"
  ELSE IF Contains(q, "this month") THEN "this_month"
  ELSE IF day_count # <<>>
    THEN IF day_count[1] <= 7 THEN "last_7_days"
         ELSE IF day_count[1] <= 30 THEN "last_30_days"
         ELSE IF day_count[1] <= 60 THEN "last_60_days"
         ELSE "last_90_days"
  ELSE IF month_count # <<>>
    THEN IF month_count[1] <= 1 THEN "last_month"
         ELSE IF month_count[1] = 2 THEN "last_60_days"
         ELSE IF month_count[1] <= 3 THEN "last_90_days"
         ELSE "all_time"
  ELSE current_period

\* _infer_period_from_question
InferPeriodFromQuestion(question, current_period) ==
  PeriodOfCounts(Lower(question), current_period,
                 ExtractNumber({"last", "past"}, "day", Lower(question)),
                 ExtractNumber({"last", "past"}, "month", Lower(question)))

\* the first member of a sequence of candidates, or None
FirstOr(candidates, otherwise) == IF Len(candidates) > 0 THEN candidates[1] ELSE otherwise

\* the canonical names of a table whose name or one of whose items is in q_norm
NamedIn(entries, q_norm, with_name) ==
  SelectSeq([k \in 1..Len(entries) |->
              IF \/ with_name /\ Contains(q_norm, normalize_category_token(entries[k].name))
                 \/ \E item \in Range(entries[k].items) :
                      /\ normalize_category_token(item) # ""
                      /\ Contains(q_norm, normalize_category_token(item))
                THEN entries[k].name ELSE None],
            LAMBDA name : name # None)

\* _infer_category_from_question
InferCategoryFromQuestion(question, household_categories) ==
  LET q_norm == normalize_category_token(question)
      own == SelectSeq(household_categories,
                       LAMBDA category :
                         LET norm == normalize_category_token(category)
                         IN norm # "" /\ (Contains(q_norm, norm) \/ Contains(norm, q_norm)))
  IN IF q_norm = "" THEN None
     ELSE FirstOr(own,
            FirstOr(NamedIn(CATEGORY_TAXONOMY, q_norm, TRUE),
              FirstOr(NamedIn(MANUAL_ALIASES, q_norm, FALSE), None)))

\* ", ".join(f"'{_escape_sql_literal(term)}'" for term in terms)
InList(terms) ==
  Join([k \in 1..Len(terms) |-> "'" \o EscapeSqlLiteral(terms[k]) \o "'"], ", ")

\* clauses of _build_where_clause, for the values it has resolved
WhereClauses(status_key, bounds, resolved_category, terms, resolved_member) ==
  (IF status_key # "all"
     THEN <<"LOWER(status) = '" \o EscapeSqlLiteral(status_key) \o "'">> ELSE <<>>)
  \o (IF bounds.start # <<>>
        THEN <<"date_incurred >= '" \o IsoFormat(bounds.start[1]) \o "'">> ELSE <<>>)
  \o (IF bounds.end # <<>>
        THEN <<"date_incurred <= '" \o IsoFormat(bounds.end[1]) \o "'">> ELSE <<>>)
  \o (IF ~Falsy(resolved_category) /\ Len(terms) > 0
        THEN <<"LOWER(REPLACE(REPLACE(COALESCE(category,''),' ','_'),'-','_')) "
                 \o "IN (" \o InList(terms) \o ")">>
        ELSE <<>>)
  \o (IF ~Falsy(resolved_member)
        THEN <<"LOWER(logged_by) = '" \o EscapeSqlLiteral(Lower(resolved_member)) \o "'">>
        ELSE <<>>)

\* the return value of _build_where_clause
WhereOf(clauses, bounds, resolved_category, resolved_member) ==
  [where_clause |-> IF Len(clauses) > 0 THEN Join(clauses, " AND ") ELSE "1=1",
   period_label |-> bounds.label,
   resolved_category |-> resolved_category,
   resolved_member |-> resolved_member]

\* status_key of _build_where_clause
StatusKey(status_key) ==
  IF status_key \in {"confirmed", "draft", "all"} THEN status_key ELSE "confirmed"

\* resolved_category of _build_where_clause
ResolvedCategory(category_value) ==
  IF ~Falsy(category_value) /\ Strip(category_value) # "" THEN Strip(category_value) ELSE None

\* _build_where_clause once the period bounds, the category and the member are resolved
WhereOfResolved(status, bounds, resolved_category, resolved_member, household_categories) ==
  WhereOf(WhereClauses(StatusKey(Lower(Strip(status))), bounds, resolved_category,
                       expand_category_terms(resolved_category, household_categories),
                       resolved_member),
          bounds, resolved_category, resolved_member)

\* _build_where_clause
BuildWhereClause(question, period, status, category, member, reference_date, household_categories, household_members) ==
  WhereOfResolved(status,
                  ResolvePeriodBounds(period, reference_date),
                  ResolvedCategory(IF Falsy(category)
                                     THEN InferCategoryFromQuestion(question, household_categories)
                                     ELSE category),
                  resolve_member_name(member, household_members),
                  household_categories)

BuiltQuery(intent, tool_name, sql, period_label, top_n, months, resolved_category, resolved_member) ==
  [intent |-> intent, tool_name |-> tool_name, sql |-> sql, period_label |-> period_label,
   top_n |-> top_n, months |-> months, resolved_category |-> resolved_category,
   resolved_member |-> resolved_member]

\* extracted_top of build_query
ExtractedTop(question) == ExtractNumber({"top"}, "", question)

\* extracted_months of build_query
ExtractedMonths(question) == ExtractNumber({"last", "past"}, "month", question)

\* the statement and the BuiltQuery of build_query for the intent, the limits
\* and the WHERE clause it has resolved
BuiltFor(resolved_intent, final_top_n, final_months, where, month_start) ==
  CASE resolved_intent = "category_breakdown" ->
         BuiltQuery(resolved_intent, "get_category_breakdown",
               "SELECT category, ROUND(COALESCE(SUM(amount),0),2) AS total_spend, "
                 \o "COUNT(*) AS expense_count "
                 \o "FROM household_expenses "
                 \o "WHERE " \o where.where_clause \o " "
                 \o "GROUP BY category "
                 \o "ORDER BY total_spend DESC "
                 \o "LIMIT 50",
               where.period_label, final_top_n, final_months,
               where.resolved_category, where.resolved_member)
    [] resolved_intent = "member_breakdown" ->
         BuiltQuery(resolved_intent, "get_member_breakdown",
               "SELECT logged_by, ROUND(COALESCE(SUM(amount),0),2) AS total_spend, "
                 \o "COUNT(*) AS expense_count "
                 \o "FROM household_expenses "
                 \o "WHERE " \o where.where_clause \o " "
                 \o "GROUP BY logged_by "
                 \o "ORDER BY total_spend DESC "
                 \o "LIMIT 50",
               where.period_label, final_top_n, final_months,
               where.resolved_category, where.resolved_member)
    [] resolved_intent = "top_expenses" ->
         BuiltQuery(resolved_intent, "get_top_expenses",
               "SELECT date_incurred, logged_by, category, amount, "
                 \o "COALESCE(description, merchant_or_item, 'Expense') AS note "
                 \o "FROM household_expenses "
                 \o "WHERE " \o where.where_clause \o " "
                 \o "ORDER BY amount DESC "
                 \o "LIMIT " \o NatText(final_top_n),
               where.period_label, final_top_n, final_months,
               where.resolved_category, where.resolved_member)
    [] resolved_intent = "monthly_trend" ->
         BuiltQuery(resolved_intent, "get_monthly_trend",
               "SELECT substr(date_incurred,1,7) AS month, "
                 \o "ROUND(COALESCE(SUM(amount),0),2) AS total_spend "
                 \o "FROM household_expenses "
                 \o "WHERE " \o where.where_clause
                 \o " AND date_incurred >= '" \o IsoFormat(month_start) \o "' "
                 \o "GROUP BY substr(date_incurred,1,7) "
                 \o "ORDER BY month",
               "Last " \o NatText(final_months) \o " months", final_top_n, final_months,
               where.resolved_category, where.resolved_member)
    [] OTHER ->
         BuiltQuery("total_spend", "get_total_spend",
                    "SELECT ROUND(COALESCE(SUM(amount),0),2) AS total_spend, "
                      \o "COUNT(*) AS expense_count "
                      \o "FROM household_expenses "
                      \o "WHERE " \o where.where_clause,
                    where.period_label, final_top_n, final_months,
                    where.resolved_category, where.resolved_member)

\* build_query once final_top_n and final_months are known
BuiltWithLimits(resolved_intent, final_top_n, final_months, where, reference_date) ==
  BuiltFor(resolved_intent, final_top_n, final_months, where,
           ShiftMonths(FirstDayOfMonth(reference_date), 0 - (final_months - 1)))

\* build_query
build_query(question, intent, period, status, category, member, top_n, months, reference_date, household_categories, household_members) ==
  BuiltWithLimits(infer_intent(question, intent),
                  Clamp(FirstTruthy(ExtractedTop(question), top_n, 5), 1, 20),
                  Clamp(FirstTruthy(ExtractedMonths(question), months, 6), 1, 24),
                  BuildWhereClause(question, InferPeriodFromQuestion(question, period),
                                   status, category, member, reference_date,
                                   household_categories, household_members),
                  reference_date)

(***************************************************************************)
(* api/analysis.py: what ask_analysis does to the agent's result before    *)
(* it answers.                                                             *)
(***************************************************************************)
\* _UUID_RE matches the 36 characters from position i on
UuidAt(s, i) ==
  /\ i + 35 <= Len(s)
  /\ \A k \in 0..35 :
       LET c == Char(s, i + k)
       IN IF k \in {8, 13, 18, 23} THEN c = "-"
          ELSE IF k = 14 THEN InString(c, "12345")
          ELSE IF k = 19 THEN InString(c, "89abAB")
          ELSE IsHex(c)
  /\ (i = 1 \/ ~IsWordChar(Char(s, i - 1)))
  /\ (i + 36 > Len(s) \/ ~IsWordChar(Char(s, i + 36)))

RECURSIVE RedactUuidsFrom(_, _)
\* _UUID_RE.sub("member", s) from position i on: up to the next match, the
\* replacement, and the rest
RedactUuidsFrom(s, i) ==
  LET at == {p \in i..Len(s) : UuidAt(s, p)}
  IN IF at = {} THEN SubSeq(s, i, Len(s))
     ELSE LET next == CHOOSE p \in at : \A o \in at : p <= o
          IN SubSeq(s, i, next - 1) \o "member" \o RedactUuidsFrom(s, next + 36)

\* _redact_uuids
RedactUuids(text) == RedactUuidsFrom(text, 1)

\* the names of _INTERNAL_TOKEN_RE and of _is_internal_id_column
InternalTokens == {"expense_id", "household_id", "logged_by_user_id", "user_id"}

\* _INTERNAL_TOKEN_RE matches the token t at position i
TokenAt(s, i, t) ==
  /\ i + Len(t) - 1 <= Len(s)
  /\ Lower(SubSeq(s, i, i + Len(t) - 1)) = t
  /\ (i = 1 \/ ~IsWordChar(Char(s, i - 1)))
  /\ (i + Len(t) > Len(s) \/ ~IsWordChar(Char(s, i + Len(t))))

RECURSIVE RedactTokensFrom(_, _)
\* _INTERNAL_TOKEN_RE.sub("member", s) from position i on: up to the next
\* match, the replacement, and the rest
RedactTokensFrom(s, i) ==
  LET at == {p \in i..Len(s) : \E t \in InternalTokens : TokenAt(s, p, t)}
  IN IF at = {} THEN SubSeq(s, i, Len(s))
     ELSE LET next == CHOOSE p \in at : \A o \in at : p <= o
              token == CHOOSE t \in InternalTokens : TokenAt(s, next, t)
          IN SubSeq(s, i, next - 1) \o "member" \o RedactTokensFrom(s, next + Len(token))

\* _is_internal_id_column
IsInternalIdColumn(column) ==
  LET normalized == Lower(Strip(column))
  IN normalized \in InternalTokens \/ EndsWith(normalized, "_id")

\* the ascending sequence of the members of a set of positions
RECURSIVE Ascending(_)
Ascending(S) ==
  IF S = {} THEN <<>>
  ELSE LET least == CHOOSE x \in S : \A y \in S : x <= y
       IN <<least>> \o Ascending(S \ {least})

\* _sanitize_table
SanitizeTable(columns, rows) ==
  IF Len(columns) = 0 THEN [columns |-> <<>>, rows |-> <<>>]
  ELSE
    LET kept == {idx \in 1..Len(columns) : ~IsInternalIdColumn(columns[idx])}
        keep_indexes == Ascending(IF kept = {} THEN 1..Len(columns) ELSE kept)
        SafeCell(row, idx) ==
          LET value == IF idx <= Len(row) THEN row[idx] ELSE Text("")
          IN IF value.num THEN value ELSE Text(RedactUuids(value.text))
    IN [columns |-> [k \in 1..Len(keep_indexes) |-> columns[keep_indexes[k]]],
        rows |-> [j \in 1..Len(rows) |->
                   [k \in 1..Len(keep_indexes) |-> SafeCell(rows[j], keep_indexes[k])]]]

\* _find_column_index: the index of the first of the names that is a
\* lowered column name (the last column of that name), or 0 for None
FindColumnIndex(columns, names) ==
  LET Found(name) == {idx \in 1..Len(columns) : Lower(columns[idx]) = Lower(name)}
      hits == {n \in 1..Len(names) : Found(names[n]) # {}}
  IN IF hits = {} THEN 0
     ELSE LET first == CHOOSE n \in hits : \A o \in hits : n <= o
          IN CHOOSE idx \in Found(names[first]) : \A o \in Found(names[first]) : idx >= o

\* str(value) of a cell; the numbers of the model are floats of whole amounts
StrOf(cell) == IF cell.num THEN IntText(cell.v) \o ".0" ELSE cell.text

\* _format_date_for_answer; the date texts of the model are those of a DATE
\* column, YYYY-MM-DD, and every other text is handed back as it is
FormatDateForAnswer(value) ==
  LET raw == Strip(value)
  IN IF IsIsoDate(raw)
       THEN LET parsed == FromIsoFormat(raw)
            IN Replace(MonthAbbr[parsed.month] \o " " \o ZeroPadded(parsed.day, 2) \o ", "
                         \o ZeroPadded(parsed.year, 4),
                       " 0", " ")
       ELSE raw

\* f"{n:,}" of a natural number
RECURSIVE Grouped(_)
Grouped(n) ==
  IF n < 1000 THEN NatText(n)
  ELSE Grouped(n \div 1000) \o "," \o ZeroPadded(n % 1000, 3)

\* _format_amount_for_answer; the texts of the model that float() accepts are
\* zeros
FormatAmountForAnswer(value, currency) ==
  LET code == IF Strip(currency) = "" THEN "INR" ELSE Upper(Strip(currency))
      amount == IF value.num
                  THEN (IF value.v < 0 THEN "-" ELSE "") \o
                       Grouped(IF value.v < 0 THEN 0 - value.v ELSE value.v) \o ".00"
                  ELSE "0.00"
  IN IF ~value.num /\ ~FloatOf(value).ok THEN StrOf(value)
     ELSE amount \o " " \o code

\* _build_friendly_row_summary
BuildFriendlyRowSummary(columns, row) ==
  LET person_idx == FindColumnIndex(columns, <<"logged_by", "user_name", "member", "person">>)
      amount_idx == FindColumnIndex(columns, <<"amount", "total", "sum", "spend">>)
      currency_idx == FindColumnIndex(columns, <<"currency">>)
      category_idx == FindColumnIndex(columns, <<"category">>)
      subcategory_idx == FindColumnIndex(columns, <<"subcategory">>)
      desc_idx == FindColumnIndex(columns, <<"description", "merchant_or_item", "merchant">>)
      date_idx == FindColumnIndex(columns, <<"date_incurred", "date", "created_at">>)
      Has(idx) == idx # 0 /\ idx <= Len(row)
      StrAt(idx) == IF Has(idx) THEN Strip(StrOf(row[idx])) ELSE ""
      person == StrAt(person_idx)
      category == StrAt(category_idx)
      subcategory == StrAt(subcategory_idx)
      description == StrAt(desc_idx)
      date_text == IF Has(date_idx) THEN FormatDateForAnswer(StrOf(row[date_idx])) ELSE ""
      currency == IF Has(currency_idx) THEN Strip(StrOf(row[currency_idx])) ELSE "INR"
      amount_text == IF Has(amount_idx) THEN FormatAmountForAnswer(row[amount_idx], currency)
                     ELSE ""
      category_label ==
        IF category # "" /\ subcategory # "" /\ Lower(subcategory) # Lower(category)
          THEN category \o " > " \o subcategory
          ELSE category
      subject == IF person # "" THEN person ELSE "A household member"
      statement_parts ==
        (IF amount_text # "" THEN <<"spent " \o amount_text>> ELSE <<>>)
          \o (IF category_label # "" THEN <<"in " \o category_label>> ELSE <<>>)
          \o (IF description # "" THEN <<"for " \o description>> ELSE <<>>)
          \o (IF date_text # "" THEN <<"on " \o date_text>> ELSE <<>>)
  IN IF Len(statement_parts) > 0
       THEN subject \o " " \o Join(statement_parts, " ") \o "."
       ELSE subject \o " logged an expense."

\* _build_friendly_answer
BuildFriendlyAnswer(question, columns, rows) ==
  IF Len(rows) = 0
    THEN "I could not find matching confirmed expenses for that request. "
           \o "If you want, I can try a wider date range or include draft entries."
    ELSE
      LET preview_count == IF Len(rows) < 3 THEN Len(rows) ELSE 3
          lines == <<"Sure - here is what I found for \"" \o question \o "\":">>
                     \o [j \in 1..preview_count |->
                           "- " \o BuildFriendlyRowSummary(columns, rows[j])]
                     \o (IF Len(rows) > preview_count
                           THEN <<"I found " \o NatText(Len(rows))
                                    \o " matching rows in total, and showed the first "
                                    \o NatText(preview_count) \o " above.">>
                           ELSE <<>>)
      IN Join(lines, "\n")

\* .+ matches the characters a..b
DotPlus(s, a, b) == a <= b /\ \A k \in a..b : Char(s, k) # "\n"

\* \s*\n matches the characters a..n
SpacesThenNewline(s, a, n) ==
  a <= n /\ n <= Len(s) /\ Char(s, n) = "\n" /\ \A k \in a..(n - 1) : IsSpace(Char(s, k))

\* \s*[-:| ]+ matches the characters a..b
RuleCells(s, a, b) ==
  \E e \in a..b : /\ \A k \in a..(e - 1) : IsSpace(Char(s, k))
                  /\ \A k \in e..b : InString(Char(s, k), "-:| ")

\* _contains_markdown_table:  \|.+\|\s*\n\|\s*[-:| ]+\|\s*\n\|.+\|
ContainsMarkdownTable(s) ==
  \E p1 \in 1..Len(s) :
    /\ Char(s, p1) = "|"
    /\ \E p2 \in (p1 + 2)..Len(s) :
         /\ Char(s, p2) = "|"
         /\ DotPlus(s, p1 + 1, p2 - 1)
         /\ \E n1 \in (p2 + 1)..Len(s) :
              /\ SpacesThenNewline(s, p2 + 1, n1)
              /\ n1 + 1 <= Len(s)
              /\ Char(s, n1 + 1) = "|"
              /\ \E p4 \in (n1 + 3)..Len(s) :
                   /\ Char(s, p4) = "|"
                   /\ RuleCells(s, n1 + 2, p4 - 1)
                   /\ \E n2 \in (p4 + 1)..Len(s) :
                        /\ SpacesThenNewline(s, p4 + 1, n2)
                        /\ n2 + 1 <= Len(s)
                        /\ Char(s, n2 + 1) = "|"
                        /\ \E p6 \in (n2 + 3)..Len(s) :
                             /\ Char(s, p6) = "|"
                             /\ DotPlus(s, n2 + 2, p6 - 1)

\* _looks_like_raw_table_dump
LooksLikeRawTableDump(text) ==
  LET stripped == Strip(text)
      low == Lower(stripped)
  IN IF stripped = "" THEN TRUE
     ELSE IF ContainsMarkdownTable(stripped) THEN FALSE
     ELSE \/ Contains(stripped, "------") /\ Contains(stripped, "|")
          \/ \E token \in InternalTokens : Contains(low, token)
          \/ StartsWith(stripped, "[{") \/ StartsWith(stripped, "{'")
          \/ StartsWith(stripped, "[(")
          \/ Contains(low, "row(") \/ Contains(low, "mappings()")

\* _finalize_user_answer
FinalizeUserAnswer(question, raw_answer, columns, rows, success) ==
  LET clean == Strip(RedactTokensFrom(RedactUuids(raw_answer), 1))
  IN IF ~success THEN clean
     ELSE IF LooksLikeRawTableDump(clean) THEN BuildFriendlyAnswer(question, columns, rows)
     ELSE clean

\* the response of ask_analysis when _run_sql_agent raised exc
FailedToRunResponse(exc) ==
  [answer |-> "SQL agent failed to run: " \o exc, table |-> <<>>]

\* the response of ask_analysis for the result of _run_sql_agent
AgentResponse(question, agent_result) ==
  LET safe == SanitizeTable(agent_result.columns, agent_result.rows)
  IN [answer |-> FinalizeUserAnswer(question, agent_result.answer, safe.columns, safe.rows,
                                    agent_result.success),
      table |-> IF agent_result.success THEN <<safe>> ELSE <<>>]

(***************************************************************************)
(* api/analysis.py: the time window of a question.                         *)
(***************************************************************************)
TimeUnits == <<"day", "days", "week", "weeks", "month", "months">>

\* (?:last|past|previous)\s+(\d{1,3})\s+(day|days|week|weeks|month|months)\b
\* matched at position k: <<[amount, unit, last]>> or <<>>
RelativeCoreAt(s, k) ==
  LET heads == {w \in {"last", "past", "previous"} : LiteralAt(s, k, w)}
  IN IF heads = {} THEN <<>>
     ELSE
       LET head == CHOOSE w \in heads : TRUE
           after_head == k + Len(head)
           digits == SkipSpaces(s, after_head)
           digits_end == DigitsEnd(s, digits)
           unit_at == SkipSpaces(s, digits_end + 1)
           fitting == {n \in 1..Len(TimeUnits) :
                         /\ LiteralAt(s, unit_at, TimeUnits[n])
                         /\ BoundaryAfter(s, unit_at + Len(TimeUnits[n]) - 1)}
       IN IF /\ digits > after_head
             /\ digits_end - digits + 1 \in 1..3
             /\ unit_at > digits_end + 1
             /\ fitting # {}
            THEN LET unit == TimeUnits[CHOOSE n \in fitting : \A o \in fitting : n <= o]
                 IN <<[amount |-> IntOf(SubSeq(s, digits, digits_end)), unit |-> unit,
                       last |-> unit_at + Len(unit) - 1]>>
            ELSE <<>>

\* _RELATIVE_TIME_WINDOW_RE matched at position i, with or without "in the"
RelativeWindowAt(s, i) ==
  LET the == SkipSpaces(s, i + 2)
      core == SkipSpaces(s, the + 3)
      prefixed == IF /\ LiteralAt(s, i, "in") /\ the > i + 2
                     /\ LiteralAt(s, the, "the") /\ core > the + 3
                    THEN RelativeCoreAt(s, core) ELSE <<>>
  IN IF i > Len(s) \/ ~IsWordChar(Char(s, i)) \/ ~BoundaryBefore(s, i) THEN <<>>
     ELSE IF prefixed # <<>> THEN prefixed
     ELSE RelativeCoreAt(s, i)

\* the match of _RELATIVE_TIME_WINDOW_RE that starts at position first
RelativeWindowMatch(first, m) ==
  <<[start |-> first, amount |-> m.amount, unit |-> m.unit, last |-> m.last]>>

\* the leftmost of the matches that start at the positions starts
RelativeWindowFirst(s, starts, first) ==
  IF starts = {} THEN <<>> ELSE RelativeWindowMatch(first, RelativeWindowAt(s, first)[1])

\* the positions at which _RELATIVE_TIME_WINDOW_RE matches
RelativeWindowStarts(s) == {i \in 1..Len(s) : RelativeWindowAt(s, i) # <<>>}

Least(S) == CHOOSE i \in S : \A o \in S : i <= o

\* _RELATIVE_TIME_WINDOW_RE.search(s): <<[start, amount, unit, last]>> of the
\* leftmost match, or <<>>
RelativeWindowSearch(s) ==
  RelativeWindowFirst(s, RelativeWindowStarts(s), Least(RelativeWindowStarts(s)))

\* re.search(r"\bw\b", s)
HasWord(s, w) ==
  \E i \in 1..Len(s) :
    LiteralAt(s, i, w) /\ BoundaryBefore(s, i) /\ BoundaryAfter(s, i + Len(w) - 1)

\* re.search(r"\bfirst\s+second\b", s)
HasPhrase(s, first, second) ==
  \E i \in 1..Len(s) :
    LET gap == i + Len(first)
        next == SkipSpaces(s, gap)
    IN /\ LiteralAt(s, i, first) /\ BoundaryBefore(s, i)
       /\ next > gap
       /\ LiteralAt(s, next, second) /\ BoundaryAfter(s, next + Len(second) - 1)

\* _shift_month_start
ShiftMonthStart(start, month_delta) ==
  LET months == start.year * 12 + (start.month - 1) + month_delta
  IN Date(months \div 12, (months % 12) + 1, 1)

ResolvedTimeWindow(source_phrase, start_date, end_date, interpretation) ==
  [source_phrase |-> source_phrase, start_date |-> start_date, end_date |-> end_date,
   interpretation |-> interpretation]

\* a window of days that reaches one day further back
DaysWindowStartWithoutToday(today, amount) == AddDays(today, 0 - amount)

\* today - timedelta(days=amount - 1)
DaysWindowStart(today, amount) == AddDays(today, 0 - (amount - 1))

\* _extract_time_window for the lowered question and what _RELATIVE_TIME_WINDOW_RE
\* has found in it
TimeWindowOf(question, today, lowered, found) ==
  LET match == found[1]
      source_phrase == SubSeq(question, match.start, match.last)
      this_month_start == Date(today.year, today.month, 1)
  IN IF found # <<>> /\ match.amount > 0
       THEN IF StartsWith(match.unit, "day")
              THEN <<ResolvedTimeWindow(source_phrase, DaysWindowStart(today, match.amount), today,
                       "rolling last " \o NatText(match.amount) \o " day(s) including today")>>
            ELSE IF StartsWith(match.unit, "week")
              THEN <<ResolvedTimeWindow(source_phrase,
                       AddDays(today, 0 - ((match.amount * 7) - 1)), today,
                       "rolling last " \o NatText(match.amount) \o " week(s) including today")>>
            ELSE <<ResolvedTimeWindow(source_phrase,
                       ShiftMonthStart(this_month_start, 0 - (match.amount - 1)), today,
                       "calendar window over last " \o NatText(match.amount)
                         \o " month(s) including current month")>>
     ELSE IF HasWord(lowered, "today")
       THEN <<ResolvedTimeWindow("today", today, today, "today only")>>
     ELSE IF HasWord(lowered, "yesterday")
       THEN <<ResolvedTimeWindow("yesterday", AddDays(today, 0 - 1), AddDays(today, 0 - 1),
                                 "yesterday only")>>
     ELSE IF HasPhrase(lowered, "this", "week")
       THEN <<ResolvedTimeWindow("this week", AddDays(today, 0 - Weekday(today)), today,
                                 "current week to date (Monday start)")>>
     ELSE IF HasPhrase(lowered, "last", "week")
       THEN LET last_week_end == AddDays(today, 0 - (Weekday(today) + 1))
            IN <<ResolvedTimeWindow("last week", AddDays(last_week_end, 0 - 6), last_week_end,
                                    "previous full week (Monday-Sunday)")>>
     ELSE IF HasPhrase(lowered, "this", "month")
       THEN <<ResolvedTimeWindow("this month", this_month_start, today, "current month to date")>>
     ELSE IF HasPhrase(lowered, "last", "month")
       THEN LET last_month_end == AddDays(this_month_start, 0 - 1)
            IN <<ResolvedTimeWindow("last month",
                                    Date(last_month_end.year, last_month_end.month, 1),
                                    last_month_end, "previous full calendar month")>>
     ELSE <<>>

\* _extract_time_window: <<window>> or <<>> for None
ExtractTimeWindow(question, today) ==
  TimeWindowOf(question, today, Lower(question), RelativeWindowSearch(Lower(question)))

(***************************************************************************)
(* The statement of get_top_expenses run on the rows of household_expenses *)
(* (what PostgreSQL makes of the text that build_query has written).       *)
(***************************************************************************)
\* the first position from i on at which part stands, or 0
IndexFrom(s, part, i) ==
  LET at == {p \in i..Len(s) : LiteralAt(s, p, part)}
  IN IF at = {} THEN 0 ELSE CHOOSE p \in at : \A o \in at : p <= o

\* the text after the first opening up to the next closing (or to the end)
Between(s, opening, closing) ==
  LET from == IndexFrom(s, opening, 1)
      start == from + Len(opening)
      stop == IndexFrom(s, closing, start)
  IN IF from = 0 THEN ""
     ELSE SubSeq(s, start, IF stop = 0 THEN Len(s) ELSE stop - 1)

RECURSIVE Split(_, _)
\* the parts of s between the separators
Split(s, sep) ==
  LET at == IndexFrom(s, sep, 1)
  IN IF at = 0 THEN <<s>>
     ELSE <<SubSeq(s, 1, at - 1)>> \o Split(SubSeq(s, at + Len(sep), Len(s)), sep)

\* the value of the quoted literal that ends a comparison
LiteralOf(clause) ==
  LET opening == IndexFrom(clause, "'", 1)
  IN Replace(SubSeq(clause, opening + 1, Len(clause) - 1), "''", "'")

\* the values of the quoted literals of IN (...)
LiteralsOf(clause) ==
  LET items == Split(Between(clause, " IN (", ")"), ", ")
  IN {Replace(SubSeq(items[k], 2, Len(items[k]) - 1), "''", "'") : k \in 1..Len(items)}

\* a row of household_expenses satisfies one condition of the WHERE clause
ClauseHolds(clause, row) ==
  IF clause = "1=1" THEN TRUE
  ELSE IF StartsWith(clause, "LOWER(status) = '") THEN Lower(row.status) = LiteralOf(clause)
  ELSE IF StartsWith(clause, "date_incurred >= '")
    THEN ToOrdinal(row.date_incurred) >= ToOrdinal(FromIsoFormat(LiteralOf(clause)))
  ELSE IF StartsWith(clause, "date_incurred <= '")
    THEN ToOrdinal(row.date_incurred) <= ToOrdinal(FromIsoFormat(LiteralOf(clause)))
  ELSE IF StartsWith(clause, "LOWER(REPLACE(REPLACE(COALESCE(category,''),' ','_'),'-','_')) IN (")
    THEN Lower(Replace(Replace(row.category, " ", "_"), "-", "_")) \in LiteralsOf(clause)
  ELSE IF StartsWith(clause, "LOWER(logged_by) = '")
    THEN Lower(row.logged_by) = LiteralOf(clause)
  ELSE FALSE

RECURSIVE ByAmountDescending(_, _)
\* ORDER BY amount DESC of the rows at the given positions (rows of equal
\* amount in the order of their positions)
ByAmountDescending(rows, positions) ==
  IF positions = {} THEN <<>>
  ELSE LET top == CHOOSE p \in positions :
                    \A o \in positions :
                      \/ rows[p].amount > rows[o].amount
                      \/ rows[p].amount = rows[o].amount /\ p <= o
       IN <<rows[top]>> \o ByAmountDescending(rows, positions \ {top})

\* COALESCE(description, merchant_or_item, 'Expense') AS note
NoteOf(row) ==
  IF row.description # None THEN row.description
  ELSE IF row.merchant_or_item # None THEN row.merchant_or_item
  ELSE "Expense"

\* the first rows of the ordered rows, up to the LIMIT, in the columns of the
\* SELECT list
LimitedTo(ordered, limit) ==
  [cols |-> <<"date_incurred", "logged_by", "category", "amount", "note">>,
   rows |-> [k \in 1..(IF Len(ordered) < limit THEN Len(ordered) ELSE limit) |->
              <<Text(IsoFormat(ordered[k].date_incurred)), Text(ordered[k].logged_by),
                Text(ordered[k].category), Num(ordered[k].amount),
                Text(NoteOf(ordered[k]))>>]]

\* the positions of the rows that satisfy every condition of the WHERE clause
Matching(clauses, rows) ==
  {p \in 1..Len(rows) : \A k \in 1..Len(clauses) : ClauseHolds(clauses[k], rows[p])}

\* the result of the get_top_expenses statement on the rows of the view
RunTopExpenses(sql, rows) ==
  LimitedTo(ByAmountDescending(rows,
                               Matching(Split(Between(sql, " WHERE ", " ORDER BY "), " AND "),
                                        rows)),
            IntOf(Between(sql, " LIMIT ", " ")))

\* the payload of _run_structured_query for the statement built, its validation
\* and what it returns when it is run
StructuredPayload(built, validation, ran) ==
  [ok |-> validation[1], tool |-> built.tool_name, intent |-> built.intent,
   sql |-> built.sql, validation_ok |-> validation[1],
   columns |-> IF validation[1] THEN ran.cols ELSE <<>>,
   rows |-> IF validation[1] THEN ran.rows ELSE <<>>]

\* the statement built is validated and run
RunBuilt(built, rows) ==
  StructuredPayload(built, validate_safe_sql(built.sql, SelectTree({View}), TRUE, {View}),
                    RunTopExpenses(built.sql, rows))

\* _run_structured_query of the analyze_expenses tool for a question of the
\* top_expenses intent: the statement is built, validated and run
RunStructuredQuery(question, reference_date, rows) ==
  RunBuilt(build_query(question, "auto", "this_month", "confirmed", None, None, 5, 6,
                       reference_date, <<>>, <<>>),
           rows)

(***************************************************************************)
(* Helper functions of the pipeline, called on their own with arguments    *)
(* drawn from small sets.                                                  *)
(***************************************************************************)
\* the rest of the model stands still while a helper function is called
FunctionReturns(v) ==
  /\ fn_value = <<>>
  /\ fn_value' = <<v>>
  /\ UNCHANGED <<fn_call, query, sqlglot_ok, verdict, dbs, fetched>>
  /\ UNCHANGED <<cfg, pc, strategy, st, result, raised, calls, rounds, last_exec, graph,
               environ>>

\* columns and rows a primary run can have returned with success
PrimaryTables ==
  { [cols |-> <<"total">>, rows |-> <<>>],
    [cols |-> <<"total_spend">>, rows |-> << <<Num(0)>> >>],
    [cols |-> <<"category", "Amount">>, rows |-> << <<Text("food"), Num(0)>>, <<Text("rent"), Text("")>> >>],
    [cols |-> <<"total">>, rows |-> << <<Text("")>> >>],
    [cols |-> <<"amount">>, rows |-> << <<Text("0.00")>> >>],
    [cols |-> <<"total">>, rows |-> << <<Text("n/a")>> >>],
    [cols |-> <<"category">>, rows |-> << <<Text("food")>> >>],
    [cols |-> <<"category", "total">>, rows |-> << <<Text("food"), Num(900)>>, <<Text("rent"), Num(0)>> >>] }

\* primary results: successful with a table, or failed and empty
PrimaryResults ==
  { SQLAgentResult(TRUE, SqlOk, Answer("default_answer", 0, ""), <<>>, t.cols, t.rows,
                   <<"tool_select">>, None) : t \in PrimaryTables }
    \cup { SQLAgentResult(FALSE, SqlOk, Answer("SQL execution failed after", 1, "timeout"),
                         <<>>, <<>>, <<>>, <<"tool_select">>, "timeout") }

\* the state _graph_should_retry is called with
ShouldRetryCalls ==
  [fn : {"_graph_should_retry"}, primary : PrimaryResults, should_fuzzy_retry : BOOLEAN,
   resolved_question : {"q1", ""}, fallback_question : {"q1", "q2", ""}]

ShouldRetryCall ==
  /\ fn_call.fn = "_graph_should_retry"
  /\ FunctionReturns(GraphShouldRetry(fn_call.primary, fn_call.should_fuzzy_retry,
                                      fn_call.resolved_question, fn_call.fallback_question))

\* an identifier of a row, as CAST(e.id AS TEXT) hands it out
SomeUuid == "3f2b8c1e-5d4a-4b6f-9c2e-7a1d0e5f4b3c"

\* what run() can have put into answer
RawAnswers ==
  { "", "You spent 900 on food.",
    "Expense " \o SomeUuid \o " has user_id 7.",
    "| category | total |\n|---|---|\n| food | 900 |",
    "[{'total': 900}]" }

\* the tables of an agent result
AgentTables ==
  { [cols |-> <<>>, rows |-> <<>>],
    [cols |-> <<"category", "total">>, rows |-> << <<Text("food"), Num(900)>> >>],
    [cols |-> <<"expense_id", "logged_by", "date_incurred", "amount", "description">>,
     rows |-> << <<Text(SomeUuid), Text("Asha"), Text("2026-02-05"), Num(1200),
                   Text("refund of " \o SomeUuid)>> >>],
    [cols |-> <<"Household_ID ", "total">>, rows |-> << <<Text(SomeUuid)>> >>],
    [cols |-> <<"expense_id">>, rows |-> << <<Text(SomeUuid)>> >>],
    [cols |-> <<"category", "subcategory", "currency", "sum">>,
     rows |-> << <<Text("Food"), Text("Dining"), Text("usd"), Num(1234567)>>,
                 <<Text("Food"), Text("food"), Text(""), Text("0.00")>>,
                 <<Text("Rent"), Text(""), Text("inr"), Text("n/a")>>,
                 <<Text("Fuel"), Text(""), Text("inr"), Num(0 - 40)>> >>] }

\* what _run_sql_agent can return to ask_analysis
AgentResults ==
  [success : BOOLEAN, answer : RawAnswers, table : AgentTables]

\* str(exc) of what _run_sql_agent can raise
AgentExceptions ==
  { "SQLAgentRunner.__init__() missing 3 required keyword-only arguments",
    "(psycopg.errors.QueryCanceled) [parameters: {'household_id': '" \o SomeUuid \o "'}]" }

\* the questions of the user
Questions == {"total spend this month", "what is expense " \o SomeUuid}

AskAnalysisCalls ==
  [fn : {"ask_analysis"}, question : Questions, raised : {TRUE}, exc : AgentExceptions]
    \cup [fn : {"ask_analysis"}, question : Questions, raised : {FALSE},
          agent_result : AgentResults]

\* ask_analysis from the return of _run_sql_agent on
AskAnalysis ==
  /\ fn_call.fn = "ask_analysis"
  /\ FunctionReturns(
       IF fn_call.raised THEN FailedToRunResponse(fn_call.exc)
       ELSE AgentResponse(fn_call.question,
                          [success |-> fn_call.agent_result.success,
                           answer |-> fn_call.agent_result.answer,
                           columns |-> fn_call.agent_result.table.cols,
                           rows |-> fn_call.agent_result.table.rows]))

\* the numbers of days that the questions ask for
AskedDays == {1, 2, 3, 7, 28, 31, 59, 60, 365, 366, 999, 1000}

\* the questions that _extract_time_window is asked
TimeQuestions ==
  {"spend in last " \o NatText(n) \o " days" : n \in AskedDays}
    \cup { "What categories pooja has spend in last 3 days?",
           "Food in the LAST 7 Days",
           "past 2 weeks and then last 3 days",
           "blast 3 days",
           "spend in last 0 days",
           "previous 1 day",
           "last 2 months by category",
           "in  the past 14 months",
           "last 3 weeks",
           "spend today", "spend yesterday", "this week", "last  week",
           "this month", "Last Month", "total spend" }

\* the dates that today can be
Anchors ==
  { Date(2026, 2, 21), Date(2026, 1, 1), Date(2024, 3, 1), Date(2025, 3, 1),
    Date(2026, 12, 31), Date(2024, 2, 29), Date(2026, 11, 2) }

ExtractTimeWindowCalls ==
  [fn : {"_extract_time_window"}, question : TimeQuestions, today : Anchors]

ExtractTimeWindowCall ==
  /\ fn_call.fn = "_extract_time_window"
  /\ FunctionReturns(ExtractTimeWindow(fn_call.question, fn_call.today))

\* the keyword arguments of build_query
BuildQueryCallOf(question, intent, period, status, category, member, top_n, months, reference_date, household_categories, household_members) ==
  [fn |-> "build_query", question |-> question, intent |-> intent, period |-> period,
   status |-> status, category |-> category, member |-> member, top_n |-> top_n,
   months |-> months, reference_date |-> reference_date,
   household_categories |-> household_categories, household_members |-> household_members]

\* build_query with the defaults of the analyze_expenses tool
AskedWithDefaults(question, reference_date) ==
  BuildQueryCallOf(question, "auto", "this_month", "confirmed", None, None, 5, 6,
                   reference_date, <<>>, <<>>)

\* a number from 0 to 20 in digits and as an English word
Spellings(n) == {NatText(n), NUMBER_WORDS[n + 1]}

TopQuestion(token) == "Show top " \o token \o " expenses"

MonthsQuestion(token) == "Show monthly trend for last " \o token \o " months"

CanonicalCategories == {CATEGORY_TAXONOMY[k].name : k \in 1..Len(CATEGORY_TAXONOMY)}

BuildQueryCalls ==
  { AskedWithDefaults(TopQuestion(token), Date(2026, 2, 15)) :
      token \in UNION {Spellings(n) : n \in 0..20} }
    \cup { BuildQueryCallOf(MonthsQuestion(token), "monthly_trend", "this_month", "confirmed",
                            None, None, 5, 3, Date(2026, 2, 15), <<>>, <<>>) :
             token \in UNION {Spellings(n) : n \in 0..20} }
    \cup { BuildQueryCallOf("How much did I spend on " \o c \o " category this month?", "auto",
                            "this_month", "confirmed", c, None, 5, 6, Date(2026, 2, 15),
                            hc, <<"Sarthak Kaushik">>) :
             c \in CanonicalCategories, hc \in {<<>>, <<"Groceries", "Transport", "Food">>} }
    \cup { AskedWithDefaults(q, d) :
             q \in { "Show top 3 expenses in last 1 month",
                     "Show top three expenses in last one month",
                     "Top 25 expenses of the past 45 days", "biggest expense today",
                     "who spent most yesterday", "lunch breakdown this week",
                     "trend over time this year", "category breakdown of all time",
                     "spend in the last  2 months", "spend in past three months",
                     "spend in last twelve months", "spend in past 7 days",
                     "spend in last twenty days", "spend in last 90 days", "spend" },
             d \in {Date(2026, 2, 15), Date(2026, 1, 31), Date(2024, 3, 15)} }
    \cup { BuildQueryCallOf("spend", intent, period, status, category, member, 0, 0,
                            Date(2026, 2, 15), <<"Pet Care", "Food">>, members) :
             intent \in {None, "Category_Breakdown ", "member_breakdown"},
             period \in {"last_month", " Last_30_Days", "last_60_days", "nonsense"},
             status \in {"all", "Draft", "unknown"},
             category \in {None, "Pet-Care", "O'Hare"},
             member \in {None},
             members \in {<<>>} }
    \cup { BuildQueryCallOf("spend by member", None, "all_time", "confirmed", None, member, 30, 40,
                            Date(2026, 2, 15), <<>>, members) :
             member \in {"sarthak", " ", "Pooja", "SARTHAK KAUSHIK"},
             members \in {<<>>, <<"Pooja Sharma", "Sarthak Kaushik", " ">>} }

BuildQueryCall ==
  /\ fn_call.fn = "build_query"
  /\ FunctionReturns(build_query(fn_call.question, fn_call.intent, fn_call.period,
                                 fn_call.status, fn_call.category, fn_call.member,
                                 fn_call.top_n, fn_call.months, fn_call.reference_date,
                                 fn_call.household_categories, fn_call.household_members))

\* the arguments of expand_category_terms
ExpandCategoryTermsCalls ==
  [fn : {"expand_category_terms"},
   raw_category : CanonicalCategories \cup {None, "", " - ", "Dining Out", "petrol", "Other"},
   household_categories : {<<>>, <<"Groceries", "Transport", "Food">>, <<"Pet Food", "", "misc.">>}]

ExpandCategoryTermsCall ==
  /\ fn_call.fn = "expand_category_terms"
  /\ FunctionReturns(expand_category_terms(fn_call.raw_category, fn_call.household_categories))

\* a row of household_expenses
ExpenseRow(amount, status, date_incurred, category, description) ==
  [amount |-> amount, status |-> status, date_incurred |-> date_incurred,
   category |-> category, logged_by |-> "Asha", description |-> description,
   merchant_or_item |-> None]

\* the households that are asked about, by the date of the question
HouseholdRows(kind, today) ==
  LET last_month == LastDayOfMonth(ShiftMonths(FirstDayOfMonth(today), 0 - 1))
  IN CASE kind = "four this month" ->
            <<ExpenseRow(500, "confirmed", today, "Transport", "Expense three"),
              ExpenseRow(900, "confirmed", FirstDayOfMonth(today), "Shopping", "Expense one"),
              ExpenseRow(300, "confirmed", LastDayOfMonth(today), "Food", "Expense four"),
              ExpenseRow(700, "confirmed", today, "Groceries", "Expense two")>>
       [] kind = "four last month" ->
            <<ExpenseRow(500, "confirmed", last_month, "Transport", "Expense three"),
              ExpenseRow(900, "confirmed", FirstDayOfMonth(last_month), "Shopping", None),
              ExpenseRow(300, "confirmed", last_month, "Food", "Expense four"),
              ExpenseRow(700, "confirmed", last_month, "Groceries", "Expense two")>>
       [] OTHER ->
            <<ExpenseRow(900, "draft", today, "Shopping", "Expense one"),
              ExpenseRow(700, "confirmed", today, "Groceries", "Expense two"),
              ExpenseRow(500, "confirmed", last_month, "Transport", "Expense three"),
              ExpenseRow(300, "confirmed", AddDays(today, 0 - 40), "Food", "Expense four")>>

TopExpenseQuestions ==
  { "Show top 3 expenses in last 1 month", "Show top three expenses in last one month",
    "Show top 3 expenses this month", "Show top 2 expenses",
    "Show top 3 expenses of all time", "largest expense in past 7 days" }

AnalyzeExpensesCalls ==
  [fn : {"analyze_expenses"}, question : TopExpenseQuestions,
   reference_date : {Date(2026, 2, 15), Date(2026, 3, 31), Date(2026, 1, 1)},
   household : {"four this month", "four last month", "mixed"}]

\* the analyze_expenses tool of the OpenAI strategy
AnalyzeExpenses ==
  /\ fn_call.fn = "analyze_expenses"
  /\ FunctionReturns(RunStructuredQuery(fn_call.question, fn_call.reference_date,
                                        HouseholdRows(fn_call.household,
                                                      fn_call.reference_date)))

\* _build_sql_validator(time_window=...)(query): the window is dropped and the
\* query goes to _safe_sql
BuildSqlValidator(time_window, candidate, importable) ==
  SafeSqlOf(candidate, importable)

\* statements over the view: without a filter on date_incurred, with bounds
\* relative to CURRENT_DATE, with the literal bounds of a window, and one that
\* also reads another table
WindowCandidates ==
  { Candidate("SELECT category, SUM(amount) FROM household_expenses " \o
              "WHERE status='confirmed' GROUP BY category",
              TRUE, {View}, TRUE, SelectTree({View})),
    Candidate("SELECT category, SUM(amount) FROM household_expenses " \o
              "WHERE status='confirmed' " \o
              "AND date_incurred >= CURRENT_DATE - INTERVAL '2 days' " \o
              "AND date_incurred <= CURRENT_DATE " \o
              "GROUP BY category",
              TRUE, {View}, TRUE, SelectTree({View})),
    Candidate("SELECT category, SUM(amount) FROM household_expenses " \o
              "WHERE status='confirmed' " \o
              "AND date_incurred BETWEEN '2026-02-19' AND '2026-02-21' " \o
              "GROUP BY category",
              TRUE, {View}, TRUE, SelectTree({View})),
    Candidate("SELECT SUM(amount) FROM household_expenses " \o
              "WHERE date_incurred BETWEEN '2026-01-01' AND '2026-01-31'",
              TRUE, {View}, TRUE, SelectTree({View})),
    Candidate("SELECT SUM(e.amount) FROM expenses e " \o
              "WHERE e.date_incurred BETWEEN '2026-02-19' AND '2026-02-21'",
              FALSE, {"expenses"}, TRUE, SelectTree({"expenses"})) }

\* questions whose time window the validator is built for
WindowQuestions ==
  {"spend in last 3 days", "spend in last month", "how much did we spend on food"}

BuildSqlValidatorCalls ==
  [fn : {"_build_sql_validator"}, question : WindowQuestions,
   today : {Date(2026, 2, 21)}, candidate : WindowCandidates, importable : BOOLEAN]

\* validator = _build_sql_validator(time_window=_extract_time_window(question,
\* today=today)); validator(query)
BuildSqlValidatorCall ==
  /\ fn_call.fn = "_build_sql_validator"
  /\ LET v == BuildSqlValidator(ExtractTimeWindow(fn_call.question, fn_call.today),
                                fn_call.candidate, fn_call.importable)
     IN FunctionReturns([ok |-> v[1], reason |-> v[2]])

\* questions for each keyword of infer_intent, alone and together
IntentQuestions ==
  {"How much did I spend on food category this month?", "total by category",
   "summary by member", "Show top 5 expenses", "topmost expense", "biggest expense today",
   "highest expense of the trend", "largest bills", "spending trend", "Month over month change",
   "spend over time", "who paid the rent", "split by user", "spent most on what",
   "spend by person per category", "category breakdown", "breakdown", "spend"}

\* the arguments of infer_intent
InferIntentCalls ==
  [fn : {"infer_intent"}, question : IntentQuestions,
   explicit_intent : Intents \cup {None, "", "auto", " Top_Expenses ", "CATEGORY_BREAKDOWN"}]

InferIntentCall ==
  /\ fn_call.fn = "infer_intent"
  /\ FunctionReturns(infer_intent(fn_call.question, fn_call.explicit_intent))

FunctionCalls ==
  BuildSqlValidatorCalls \cup
  AnalyzeExpensesCalls \cup ShouldRetryCalls \cup AskAnalysisCalls \cup ExtractTimeWindowCalls \cup BuildQueryCalls
    \cup ExpandCategoryTermsCalls \cup InferIntentCalls

FunctionsInit ==
  /\ fn_call \in FunctionCalls
  /\ fn_value = <<>>
  /\ environ = NoKeys
  /\ query = Candidate("", FALSE, {}, FALSE, SelectTree({}))
  /\ sqlglot_ok = FALSE
  /\ verdict = <<>>
  /\ dbs = <<>>
  /\ fetched = <<>>
  /\ cfg = [provider |-> "groq", api_key |-> "key", sdk_ok |-> TRUE,
            langchain_ok |-> TRUE, langgraph_ok |-> TRUE, max_attempts |-> 1,
            invalid |-> {SqlBad}, wiring |-> "direct"]
  /\ pc = "idle"
  /\ strategy = "none"
  /\ st = Frame
  /\ result = <<>>
  /\ raised = None
  /\ calls = <<>>
  /\ rounds = 0
  /\ last_exec = <<>>
  /\ graph = NoGraph

FunctionsNext ==
  \/ ShouldRetryCall
  \/ AskAnalysis
  \/ ExtractTimeWindowCall
  \/ BuildQueryCall
  \/ ExpandCategoryTermsCall
  \/ AnalyzeExpenses
  \/ BuildSqlValidatorCall
  \/ InferIntentCall

FunctionsSpec == FunctionsInit /\ [][FunctionsNext]_vars

(***************************************************************************)
(* The specification of the orchestrator: one run() of a runner built with *)
(* every callback, in any configuration, or the analysis graph around the  *)
(* runner.                                                                 *)
(***************************************************************************)
Configs ==
  { c \in [provider : Providers, api_key : {"key", None},
           sdk_ok : BOOLEAN, langchain_ok : BOOLEAN, langgraph_ok : BOOLEAN,
           max_attempts : 1..MaxAttemptsBound,
           invalid : {{SqlBad} \cup x : x \in SUBSET {SqlFallback, SqlBuilt}},
           wiring : {"direct", "executor"}] :
      /\ (c.provider # "openai" => c.sdk_ok /\ SqlBuilt \notin c.invalid)
      /\ (c.provider # "cerebras" => c.langchain_ok /\ c.langgraph_ok)
      /\ (c.wiring = "executor" =>
            /\ c.provider # "openai" /\ c.max_attempts = 1 /\ c.api_key = "key"
            /\ c.langchain_ok /\ c.langgraph_ok /\ c.invalid = {SqlBad}) }

\* run() of a runner on its own
RunnerInit ==
  /\ cfg \in {c \in Configs : c.wiring = "direct"}
  /\ pc = "construct"
  /\ strategy = "none"
  /\ st = Frame
  /\ result = <<>>
  /\ raised = None
  /\ calls = <<>>
  /\ rounds = 0
  /\ last_exec = <<>>
  /\ graph = NoGraph
  /\ SandboxIdle

\* the analysis graph, run for the provider "groq" (_resolve_sql_agent_runtime
\* with settings.llm_provider = "groq"), whose runner takes the sequential loop
PipelineInit ==
  /\ cfg \in {c \in Configs : c.provider = "groq"}
  /\ pc = "idle"
  /\ strategy = "none"
  /\ st = Frame
  /\ result = <<>>
  /\ raised = None
  /\ calls = <<>>
  /\ rounds = 0
  /\ last_exec = <<>>
  /\ graph = [NoGraph EXCEPT !.node = "resolve_context"]
  /\ SandboxIdle

Init == RunnerInit \/ PipelineInit

Next ==
  \/ ConstructRunner
  \/ RunStart
  \/ SeqPropose \/ SeqValidate \/ SeqExecute \/ SeqAnswer
  \/ LgPropose \/ LgValidate \/ LgExecute \/ LgRecord \/ LgPrepareFix
  \/ LgSummarizeSuccess \/ LgSummarizeFailure
  \/ LcToolCall \/ LcValidate \/ LcExecute \/ LcFix \/ LcFinish \/ LcAgentRaises
  \/ OaToolCall \/ OaExecute \/ OaNoToolOutput \/ OaAgentRaises
  \/ GraphResolveContext \/ GraphRoute \/ GraphFinalizePrimary
  \/ GraphRunFallback \/ GraphRaises

Spec == Init /\ [][Next]_vars

(***************************************************************************)
(* The specification of the repair loops: one run() that takes the         *)
(* sequential loop (provider "groq") or the graph loop (provider           *)
(* "cerebras" without the LangChain packages), with a budget of up to      *)
(* MaxRepairAttempts attempts.                                             *)
(***************************************************************************)
RepairConfigs ==
  { c \in [provider : {"groq", "cerebras"}, api_key : {"key", None},
           sdk_ok : {TRUE}, langchain_ok : BOOLEAN, langgraph_ok : {TRUE},
           max_attempts : 1..MaxRepairAttempts,
           invalid : {{SqlBad} \cup x : x \in SUBSET {SqlFallback}},
           wiring : {"direct"}] :
      c.langchain_ok <=> c.provider = "groq" }

RepairInit ==
  /\ cfg \in RepairConfigs
  /\ pc = "construct"
  /\ strategy = "none"
  /\ st = Frame
  /\ result = <<>>
  /\ raised = None
  /\ calls = <<>>
  /\ rounds = 0
  /\ last_exec = <<>>
  /\ graph = NoGraph
  /\ SandboxIdle

RepairNext ==
  \/ ConstructRunner
  \/ RunStart
  \/ SeqPropose \/ SeqValidate \/ SeqExecute \/ SeqAnswer
  \/ LgPropose \/ LgValidate \/ LgExecute \/ LgRecord \/ LgPrepareFix
  \/ LgSummarizeSuccess \/ LgSummarizeFailure

RepairSpec == RepairInit /\ [][RepairNext]_vars

(***************************************************************************)
(* The specification of the two loops side by side: _run_sequential runs   *)
(* to its result, then _run_langgraph is called with the same question and *)
(* max_attempts, and each of its callbacks has the outcome that the same   *)
(* invocation had in the sequential loop.                                  *)
(***************************************************************************)
\* what the sequential loop returned and the callback invocations it made
SequentialRun == fn_value[1]

\* the callback invocation returns in the graph loop what it returned in the
\* sequential loop: the authored SQL (seen by the validate callback), the
\* rows or the error of the execution, the summary
SameOutcome(c, d) ==
  /\ c.ok = d.ok
  /\ c.op = "validate" => c.sql = d.sql
  /\ c.op \in {"execute", "llm_summary"} => c.arg = d.arg

\* the graph loop is running and the invocations it has made so far had the
\* outcomes of the sequential loop, wherever that loop made the same invocation
SameOutcomes ==
  /\ strategy = "langgraph"
  /\ \A k \in 1..Len(calls) :
       (k <= Len(SequentialRun.calls) /\ SequentialRun.calls[k].op = calls[k].op)
         => SameOutcome(calls[k], SequentialRun.calls[k])

\* _run_langgraph(question=question, max_attempts=max_attempts) is called after
\* _run_sequential has returned
CallLanggraph ==
  /\ fn_call.fn = "_run_sequential"
  /\ pc = "done"
  /\ strategy = "sequential"
  /\ result # <<>>
  /\ fn_call' = [fn |-> "_run_langgraph"]
  /\ fn_value' = <<[result |-> result[1], calls |-> calls]>>
  /\ pc' = "lg_propose"
  /\ strategy' = "langgraph"
  /\ st' = Frame
  /\ result' = <<>>
  /\ calls' = <<>>
  /\ rounds' = 0
  /\ UNCHANGED <<cfg, raised, last_exec, graph, query, sqlglot_ok, verdict, dbs, fetched,
               environ>>

ProposeWithSameOutcome == fn_call.fn = "_run_langgraph" /\ LgPropose /\ SameOutcomes'

ValidateWithSameOutcome == fn_call.fn = "_run_langgraph" /\ LgValidate /\ SameOutcomes'

ExecuteWithSameOutcome == fn_call.fn = "_run_langgraph" /\ LgExecute /\ SameOutcomes'

SummarizeWithSameOutcome == fn_call.fn = "_run_langgraph" /\ LgSummarizeSuccess /\ SameOutcomes'

LoopsInit ==
  /\ cfg \in {c \in RepairConfigs : c.provider = "groq"}
  /\ pc = "construct"
  /\ strategy = "none"
  /\ st = Frame
  /\ result = <<>>
  /\ raised = None
  /\ calls = <<>>
  /\ rounds = 0
  /\ last_exec = <<>>
  /\ graph = NoGraph
  /\ fn_call = [fn |-> "_run_sequential"]
  /\ fn_value = <<>>
  /\ environ = NoKeys
  /\ query = Candidate("", FALSE, {}, FALSE, SelectTree({}))
  /\ sqlglot_ok = FALSE
  /\ verdict = <<>>
  /\ dbs = <<>>
  /\ fetched = <<>>

LoopsNext ==
  \/ ConstructRunner
  \/ RunStart
  \/ SeqPropose \/ SeqValidate \/ SeqExecute \/ SeqAnswer
  \/ CallLanggraph
  \/ ProposeWithSameOutcome \/ ValidateWithSameOutcome \/ ExecuteWithSameOutcome
  \/ LgRecord \/ LgPrepareFix
  \/ SummarizeWithSameOutcome \/ LgSummarizeFailure

LoopsSpec == LoopsInit /\ [][LoopsNext]_vars

(***************************************************************************)
(* The specification of two requests in one process: run() of a runner of  *)
(* the provider "openai", while the runner of another request of the same  *)
(* process reaches its own "os.environ[...] = self.api_key".               *)
(***************************************************************************)
\* the runner of the other request: a tool-calling provider with its own key
OtherRunners ==
  [provider : {"openai", "cerebras"}, api_key : {"key", "other key"},
   sdk_ok : {TRUE}, langchain_ok : {TRUE}]

\* the other request runs "if self.api_key: os.environ[...] = self.api_key"
OtherRequestExportsKey ==
  /\ \E c \in OtherRunners :
       /\ environ' = ExportedKeys(environ, c)
       /\ environ' # environ
  /\ UNCHANGED <<sandbox, cfg, pc, strategy, st, result, raised, calls, rounds,
                 last_exec, graph>>

SharedProcessInit ==
  /\ cfg \in {c \in Configs : c.wiring = "direct" /\ c.provider = "openai"}
  /\ pc = "construct"
  /\ strategy = "none"
  /\ st = Frame
  /\ result = <<>>
  /\ raised = None
  /\ calls = <<>>
  /\ rounds = 0
  /\ last_exec = <<>>
  /\ graph = NoGraph
  /\ SandboxIdle

SharedProcessNext ==
  \/ ConstructRunner
  \/ RunStart
  \/ OaToolCall \/ OaExecute \/ OaNoToolOutput \/ OaAgentRaises
  \/ SeqPropose \/ SeqValidate \/ SeqExecute \/ SeqAnswer
  \/ OtherRequestExportsKey

SharedProcessSpec == SharedProcessInit /\ [][SharedProcessNext]_vars

(***************************************************************************)
(* The specification of the validator and the view: one candidate is       *)
(* validated for the allowlist {household_expenses} and, once accepted,    *)
(* run through the view for the household on two database states that     *)
(* hold the same records of that household.                                *)
(***************************************************************************)
SandboxInit ==
  /\ FunctionsIdle
  /\ query \in Candidates
  /\ sqlglot_ok \in BOOLEAN
  /\ verdict = <<>>
  /\ dbs \in Databases \X Databases
  /\ fetched = <<>>
  /\ cfg = [provider |-> "groq", api_key |-> "key", sdk_ok |-> TRUE,
            langchain_ok |-> TRUE, langgraph_ok |-> TRUE, max_attempts |-> 1,
            invalid |-> {SqlBad}, wiring |-> "direct"]
  /\ pc = "idle"
  /\ strategy = "none"
  /\ st = Frame
  /\ result = <<>>
  /\ raised = None
  /\ calls = <<>>
  /\ rounds = 0
  /\ last_exec = <<>>
  /\ graph = NoGraph

SandboxNext == SafeSql \/ RunSql

SandboxSpec == SandboxInit /\ [][SandboxNext]_vars

(***************************************************************************)
(* Properties of the orchestrator.                                         *)
(***************************************************************************)
\* an SQLAgentResult that run() has returned
Returned == {result[i] : i \in 1..Len(result)}

\* C1: in every strategy the execute callback is invoked only on the SQL
\* text that the validate callback was invoked on just before, in the same
\* attempt, with the answer ok; an attempt whose validation failed has no
\* invocation of the execute callback.
ExecuteOnlyAfterValidation ==
  /\ \A i \in 1..Len(calls) :
       calls[i].op = "execute" =>
         /\ i > 1
         /\ calls[i - 1].op = "validate"
         /\ calls[i - 1].ok
         /\ calls[i - 1].sql = calls[i].sql
         /\ calls[i - 1].att = calls[i].att
  /\ \A i, j \in 1..Len(calls) :
       (calls[i].op = "validate" /\ ~calls[i].ok /\ calls[j].op = "execute")
         => calls[i].att # calls[j].att

\* C1 witness: an execution in an attempt that follows a rejected attempt
ExecutedAfterRejectedAttempt ==
  \E i, j \in 1..Len(calls) :
    /\ i < j
    /\ calls[i].op = "validate" /\ ~calls[i].ok
    /\ calls[j].op = "execute"

\* C2: over all strategies that one run() tries, no more than max_attempts
\* SQL candidates are authored and validated.
RoundsWithinBudget == rounds <= cfg.max_attempts

\* C3: a returned result with success = false has a failure_reason that is
\* present and not the empty string.
FailedResultHasReason ==
  \A r \in Returned : ~r.success => r.failure_reason \notin {None, ""}

\* the result reflects the execution exec (<<>> if there was none)
ReflectsExecution(r, exec) ==
  IF r.success
    THEN /\ exec # <<>>
         /\ r.columns = exec[1].cols
         /\ r.rows = exec[1].rows
         /\ r.failure_reason = None
    ELSE r.columns = <<>> /\ r.rows = <<>>

\* C4 as stated: every returned and every merged result carries, if
\* successful, the columns and rows of the last successful execution and no
\* failure_reason, and is empty otherwise.
ResultReflectsLastExecution ==
  /\ \A r \in Returned : ReflectsExecution(r, last_exec)
  /\ \A i \in 1..Len(graph.final) : ReflectsExecution(graph.final[i], last_exec)

\* C4 amended: a merged result reflects the last successful execution of the
\* run it was taken from by the merge policy, which is the primary run
\* whenever the fuzzy retry did not succeed with at least one row (unless the
\* primary failed), also when the retry executed successfully after it.
ResultReflectsExecutionOfItsRun ==
  /\ \A r \in Returned : ReflectsExecution(r, last_exec)
  /\ \A i \in 1..Len(graph.final) :
       ReflectsExecution(graph.final[i],
                         IF graph.fallback # <<>>
                            /\ UseFallback(graph.primary[1], graph.fallback[1])
                           THEN last_exec ELSE graph.primary_exec)

\* C4 witness: a merged successful result taken from the primary run although
\* the fuzzy retry executed successfully
MergedKeepsPrimaryAfterSuccessfulRetry ==
  /\ graph.node = "end"
  /\ graph.fallback # <<>>
  /\ graph.fallback[1].success
  /\ graph.final[1].success
  /\ graph.final[1].rows = graph.primary[1].rows
  /\ graph.primary_exec # last_exec

\* C5: run() never raises, whatever its callbacks do.
RunNeverRaises == raised \notin ExcKinds

\* the texts that name a missing dependency (the RuntimeErrors of the strategies)
MissingDependencyReasons ==
  {"LangChain Cerebras agent dependencies are required. Install langchain-cerebras.",
   "langgraph is required for cerebras SQL orchestration. Install langgraph.",
   "OpenAI Agents SDK is required for openai provider orchestration. Install openai-agents and openai."}

BackendUnavailable ==
  cfg.api_key = None \/ ~cfg.sdk_ok \/ ~cfg.langchain_ok \/ ~cfg.langgraph_ok

\* C6: with an unavailable authoring backend the orchestrator does not raise
\* and returns a failed result whose failure_reason names the missing
\* dependency.
UnavailableBackendIsReported ==
  (pc = "done" /\ graph.node = "none" /\ BackendUnavailable) =>
    /\ raised = None
    /\ \A r \in Returned : ~r.success /\ r.failure_reason \in MissingDependencyReasons

(***************************************************************************)
(* Properties of the validator and the view.                               *)
(***************************************************************************)
\* the verdicts validate_safe_sql has returned
Verdicts == {verdict[i] : i \in 1..Len(verdict)}

\* C7: a candidate that holds a write or DDL keyword, at any position and
\* followed by any whitespace character, is rejected.
WriteKeywordIsRejected ==
  \A v \in Verdicts : HasWriteKeyword(query.sql) => ~v.ok

\* C8: a candidate that references a table outside the allowlist is rejected
\* with a reason that names that table.
DisallowedTableIsRejectedByName ==
  \A v \in Verdicts : \A t \in query.reads \ {View} :
    ~v.ok /\ Contains(v.reason, t)

\* C9: a syntactically valid single SELECT statement without a semicolon
\* whose only table reference is household_expenses is accepted with the
\* empty reason.
PlainSelectIsAccepted ==
  \A v \in Verdicts :
    (query.plain_select /\ ~Contains(query.sql, ";")) => v = [ok |-> TRUE, reason |-> ""]

\* C10: on two database states with the same records of the household a
\* validated candidate returns the same through the view, and it reads
\* neither expenses nor users.
ViewResultDependsOnlyOnHousehold ==
  (fetched # <<>> /\ RecordsOf(dbs[1], Household) = RecordsOf(dbs[2], Household)) =>
    /\ fetched[1] = fetched[2]
    /\ query.reads \cap {"expenses", "users"} = {}

(***************************************************************************)
(* Properties of the helper functions.                                     *)
(***************************************************************************)
\* the call of fn has returned
Called(fn) == fn_call.fn = fn /\ fn_value # <<>>

\* the cells of the metric-looking columns of a result
MetricCells(r) ==
  {r.rows[j][i] : <<j, i>> \in {c \in (1..Len(r.rows)) \X (1..Len(r.columns)) :
                                  IsMetricColumn(r.columns[c[2]]) /\ c[2] <= Len(r.rows[c[1]])}}

\* the cell holds zero: the number 0 or a text that reads as 0
IsZeroCell(cell) == ~IsBlank(cell) /\ FloatOf(cell).ok /\ FloatOf(cell).zero

\* the fuzzy question is non-empty and differs from the strict question
FuzzyQuestionDiffers == fn_call.fallback_question \notin {"", fn_call.resolved_question}

\* C11 as stated: the route is retry_with_fuzzy exactly when should_fuzzy_retry
\* is set, the fuzzy question is non-empty and differs from the strict one, and
\* the primary result has no rows or succeeded with every metric-looking
\* column zero in every row; otherwise it is use_primary.
RetryExactlyWhenEmptyOrAllZero ==
  Called("_graph_should_retry") =>
    fn_value[1] =
      IF /\ fn_call.should_fuzzy_retry
         /\ FuzzyQuestionDiffers
         /\ \/ Len(fn_call.primary.rows) = 0
            \/ /\ fn_call.primary.success
               /\ \A c \in MetricCells(fn_call.primary) : IsZeroCell(c)
        THEN "retry_with_fuzzy" ELSE "use_primary"

\* C11 amended: the route is retry_with_fuzzy exactly when should_fuzzy_retry
\* is set, the fuzzy question is non-empty and differs from the strict one, and
\* the primary result has no rows, or it succeeded, at least one cell of a
\* metric-looking column is not blank, and every such non-blank cell holds
\* zero; otherwise it is use_primary.
RetryExactlyWhenEmptyOrZeroAggregate ==
  Called("_graph_should_retry") =>
    fn_value[1] =
      IF /\ fn_call.should_fuzzy_retry
         /\ FuzzyQuestionDiffers
         /\ \/ Len(fn_call.primary.rows) = 0
            \/ /\ fn_call.primary.success
               /\ \E c \in MetricCells(fn_call.primary) : ~IsBlank(c)
               /\ \A c \in MetricCells(fn_call.primary) : IsBlank(c) \/ IsZeroCell(c)
        THEN "retry_with_fuzzy" ELSE "use_primary"

\* C11 witness: a retry for a zero aggregate that has a blank cell next to a zero
RetriedForZeroAggregateWithBlank ==
  /\ Called("_graph_should_retry")
  /\ fn_value[1] = "retry_with_fuzzy"
  /\ \E c \in MetricCells(fn_call.primary) : IsBlank(c)
  /\ \E c \in MetricCells(fn_call.primary) : IsZeroCell(c)

(***************************************************************************)
(* Properties of the analysis graph after a fuzzy retry.                   *)
(***************************************************************************)
\* the graph has ended through run_fallback
RetryMerged == graph.node = "end" /\ graph.fallback # <<>>

\* the fields of a result that the merge takes from one of the two runs
Outcome(r) ==
  [success |-> r.success, final_sql |-> r.final_sql, answer |-> r.answer,
   columns |-> r.columns, rows |-> r.rows, failure_reason |-> r.failure_reason]

\* C12: after a fuzzy retry the final result takes success, final_sql, answer,
\* columns, rows and failure_reason from the fallback result if the fallback
\* succeeded with at least one row, or if the primary failed and the fallback
\* succeeded; otherwise it takes all of them from the primary result.
FinalOutcomeIsOfChosenRun ==
  RetryMerged =>
    LET primary == graph.primary[1]
        fallback == graph.fallback[1]
    IN IF \/ fallback.success /\ Len(fallback.rows) >= 1
          \/ ~primary.success /\ fallback.success
         THEN Outcome(graph.final[1]) = Outcome(fallback)
         ELSE Outcome(graph.final[1]) = Outcome(primary)

\* C12 witness: a failed primary run is replaced by a retry that succeeded
\* without rows
FailedPrimaryReplacedByEmptyRetry ==
  /\ RetryMerged
  /\ ~graph.primary[1].success
  /\ graph.fallback[1].success
  /\ Len(graph.fallback[1].rows) = 0
  /\ Outcome(graph.final[1]) = Outcome(graph.fallback[1])
  /\ Outcome(graph.final[1]) # Outcome(graph.primary[1])

(***************************************************************************)
(* Properties of the response of ask_analysis.                             *)
(***************************************************************************)
\* the text holds a substring that _UUID_RE matches
HasUuid(text) == \E i \in 1..Len(text) : UuidAt(text, i)

\* the text cells of a table
TextCells(table) ==
  {table.rows[j][k].text :
     <<j, k>> \in {c \in (1..Len(table.rows)) \X (1..Len(table.columns)) :
                     ~table.rows[c[1]][c[2]].num}}

\* C13: the response built by ask_analysis holds no UUID-pattern substring in
\* its answer or in a text cell of its table, and its table has no internal
\* id column (expense_id, household_id, logged_by_user_id, user_id or a
\* name ending in _id).
ResponseHidesInternalIds ==
  Called("ask_analysis") =>
    /\ ~HasUuid(fn_value[1].answer)
    /\ \A table \in {fn_value[1].table[k] : k \in 1..Len(fn_value[1].table)} :
         /\ \A cell \in TextCells(table) : ~HasUuid(cell)
         /\ \A k \in 1..Len(table.columns) : ~IsInternalIdColumn(table.columns[k])

(***************************************************************************)
(* Properties of _extract_time_window.                                     *)
(***************************************************************************)
\* the positions of the phrase "last n days" in the lowered question
LastDaysAt(n) ==
  LET lowered == Lower(fn_call.question)
      phrase == "last " \o NatText(n) \o " days"
  IN {p \in 1..Len(lowered) : LiteralAt(lowered, p, phrase)}

\* the window of the n days that end with the anchor
IsWindowOfDays(window, n) ==
  /\ window.end_date = fn_call.today
  /\ ToOrdinal(window.start_date) = ToOrdinal(fn_call.today) - (n - 1)
  /\ ToOrdinal(window.end_date) - ToOrdinal(window.start_date) + 1 = n
  /\ ToOrdinal(window.start_date) <= ToOrdinal(window.end_date)

\* C16 as stated: for every anchor and every N >= 1, on a question that
\* contains "last N days" the window starts N - 1 days before the anchor and
\* ends on the anchor.
LastDaysWindowForEveryN ==
  Called("_extract_time_window") =>
    \A n \in AskedDays :
      LastDaysAt(n) # {} =>
        /\ fn_value[1] # <<>>
        /\ IsWindowOfDays(fn_value[1][1], n)

\* C16 amended: for every anchor and every N from 1 to 999, on a question
\* whose first relative phrase is the word-bounded "last N days" the window
\* starts N - 1 days before the anchor and ends on the anchor, so it has
\* exactly N days.
LastDaysWindowUpToThreeDigits ==
  Called("_extract_time_window") =>
    \A n \in AskedDays :
      LET lowered == Lower(fn_call.question)
          first == {p \in LastDaysAt(n) :
                     /\ BoundaryBefore(lowered, p)
                     /\ BoundaryAfter(lowered, p + Len("last " \o NatText(n) \o " days") - 1)
                     /\ \A q \in 1..(p - 1) :
                          \A w \in {"last", "past", "previous"} : ~LiteralAt(lowered, q, w)}
      IN (first # {} /\ Len(NatText(n)) <= 3) =>
           /\ fn_value[1] # <<>>
           /\ IsWindowOfDays(fn_value[1][1], n)

\* C16 witness: "last 3 days" anchored at 2026-02-21 is 2026-02-19 to 2026-02-21
LastThreeDaysOfFebruary ==
  /\ Called("_extract_time_window")
  /\ fn_call.question = "What categories pooja has spend in last 3 days?"
  /\ fn_call.today = Date(2026, 2, 21)
  /\ fn_value[1] # <<>>
  /\ IsoFormat(fn_value[1][1].start_date) = "2026-02-19"
  /\ IsoFormat(fn_value[1][1].end_date) = "2026-02-21"

(***************************************************************************)
(* Properties of build_query and expand_category_terms.                    *)
(***************************************************************************)
\* C15: for every n from 1 to 20, build_query reads "top <n>" written in
\* digits and written as a number word as the same top_n, equal to n, and
\* "last <n> months" in either spelling as the same months, equal to n.
NumberSpellingsAgree ==
  Called("build_query") =>
    \A n \in 1..(Len(NUMBER_WORDS) - 1) :
      \A token \in Spellings(n) :
        /\ fn_call.question = TopQuestion(token) => fn_value[1].top_n = n
        /\ fn_call.question = MonthsQuestion(token) => fn_value[1].months = n

\* the normalized tokens of a canonical category and of its subcategories
TokensOfCategory(c) ==
  {normalize_category_token(c)}
    \cup UNION { {normalize_category_token(item) : item \in Range(CATEGORY_TAXONOMY[k].items)} :
                   k \in {k \in 1..Len(CATEGORY_TAXONOMY) : CATEGORY_TAXONOMY[k].name = c} }

\* the text between the parentheses of the category IN (...) of a statement
CategoryInList(sql) ==
  LET opens == {i \in 1..Len(sql) : LiteralAt(sql, i, " IN (")}
  IN IF opens = {} THEN ""
     ELSE LET first == (CHOOSE i \in opens : \A o \in opens : i <= o) + 5
              closes == {j \in first..Len(sql) : Char(sql, j) = ")"}
          IN SubSeq(sql, first, (CHOOSE j \in closes : \A o \in closes : j <= o) - 1)

\* C17: for every canonical category c, expand_category_terms(c) holds the
\* normalized token of c and of every subcategory of c, and the category
\* IN-list of the statement that build_query builds for the hint c holds
\* each of them.
ExpansionCoversSubcategories ==
  /\ (Called("expand_category_terms") /\ fn_call.raw_category \in CanonicalCategories) =>
       TokensOfCategory(fn_call.raw_category) \subseteq Range(fn_value[1])
  /\ (Called("build_query") /\ fn_call.category \in CanonicalCategories) =>
       \A token \in TokensOfCategory(fn_call.category) :
         Contains(CategoryInList(fn_value[1].sql), "'" \o token \o "'")

\* C17 witness: the statement for the hint food filters on food and on its
\* subcategories
FoodStatementListsSubcategories ==
  /\ Called("build_query")
  /\ fn_call.category = "food"
  /\ \A token \in {"food", "groceries", "dining_out", "delivery_fees"} :
       /\ token \in TokensOfCategory("food")
       /\ Contains(CategoryInList(fn_value[1].sql), "'" \o token \o "'")

(***************************************************************************)
(* Properties of the deterministic builder on a household's records.       *)
(***************************************************************************)
\* the amounts of the rows that the get_top_expenses statement returned
AmountsOf(rows) == [k \in 1..Len(rows) |-> rows[k][4].v]

\* C14: with the deterministic builder, "Show top 3 expenses in last 1 month"
\* asked for a household whose only records are four confirmed expenses of
\* 900, 700, 500 and 300 dated in the current month of the reference date
\* returns exactly 3 rows in descending order of amount, the first with 900.
TopThreeOfCurrentMonth ==
  ( /\ Called("analyze_expenses")
    /\ fn_call.question = "Show top 3 expenses in last 1 month"
    /\ fn_call.household = "four this month" ) =>
      LET amounts == AmountsOf(fn_value[1].rows)
      IN /\ Len(amounts) = 3
         /\ \A k \in 1..(Len(amounts) - 1) : amounts[k] >= amounts[k + 1]
         /\ amounts[1] = 900

(***************************************************************************)
(* The validator of a question with a time window.                         *)
(***************************************************************************)
\* the time window the validator of the call was built for
WindowOfCall == ExtractTimeWindow(fn_call.question, fn_call.today)

\* the statement filters date_incurred between the bounds of the window
FiltersBetween(sql, window) ==
  Contains(Lower(sql), "date_incurred between '" \o IsoFormat(window[1].start_date)
                         \o "' and '" \o IsoFormat(window[1].end_date) \o "'")

\* C18: the validator built for a resolved time window rejects a safe statement
\* without a filter on date_incurred with a reason that names date_incurred,
\* rejects one whose date_incurred bounds are relative to CURRENT_DATE, and
\* accepts with an empty reason a safe statement that filters date_incurred
\* BETWEEN the start and the end of the window.
ValidatorEnforcesTimeWindow ==
  ( /\ Called("_build_sql_validator")
    /\ WindowOfCall # <<>>
    /\ fn_call.candidate.plain_select ) =>
      LET low == Lower(fn_call.candidate.sql)
          v == fn_value[1]
      IN /\ ~Contains(low, "date_incurred") =>
              (~v.ok /\ Contains(v.reason, "date_incurred"))
         /\ Contains(low, "current_date") => ~v.ok
         /\ FiltersBetween(fn_call.candidate.sql, WindowOfCall) =>
              (v.ok /\ v.reason = "")

(***************************************************************************)
(* The conditional edge of the graph loop.                                 *)
(***************************************************************************)
\* the nodes of the graph in which an attempt is made
AttemptNodes == {"lg_propose", "lg_validate", "lg_execute", "lg_record", "lg_prepare_fix"}

SummaryNodes == {"lg_summarize_success", "lg_summarize_failure"}

\* the attempt that the step has just recorded
RecordedAttempt == st'.attempts[Len(st'.attempts)]

AuthoringCalls ==
  {k \in 1..Len(calls) : /\ calls[k].op \in {"llm_generate", "llm_fix"}
                         /\ calls[k].strat \in {"sequential", "langgraph"}}

\* the error recorded for an attempt: its validation reason or its execution error
RecordedError(attempt) ==
  IF attempt.validation_ok THEN attempt.db_error ELSE attempt.validation_reason

\* the first authoring call is in generate mode and every later one in fix mode,
\* carrying the SQL recorded in the attempt before it
FixCarriesPreviousSql(c) ==
  /\ c.att >= 1
  /\ c.att = 1 <=> c.op = "llm_generate"
  /\ c.att > 1 =>
       /\ c.op = "llm_fix"
       /\ Len(st.attempts) >= c.att - 1
       /\ c.sql = st.attempts[c.att - 1].generated_sql

\* C20 as stated: the first attempt is authored in generate mode and every
\* later attempt k+1 in fix mode with the SQL and the error recorded in attempt k
FixCarriesRecordedError ==
  \A k \in AuthoringCalls :
    /\ FixCarriesPreviousSql(calls[k])
    /\ calls[k].att > 1 =>
         calls[k].arg = RecordedError(st.attempts[calls[k].att - 1])

\* C20 amended: the first attempt of the sequential loop and of the graph loop calls
\* the authoring strategy in generate mode; every later attempt k+1 calls it in
\* fix mode with the SQL recorded in attempt k and with the error recorded for
\* attempt k, or with the text "unknown execution error" when that recorded
\* error is empty; it never carries the SQL or the error of an older attempt.
FixCarriesRecordedErrorOrPlaceholder ==
  \A k \in AuthoringCalls :
    /\ FixCarriesPreviousSql(calls[k])
    /\ calls[k].att > 1 =>
         calls[k].arg = PyOr(RecordedError(st.attempts[calls[k].att - 1]),
                             "unknown execution error")

\* C20 witness: a third attempt is authored after two attempts that differ in
\* SQL and error
ThirdAttemptFixesSecond ==
  \E k \in AuthoringCalls :
    /\ calls[k].att = 3
    /\ Len(st.attempts) >= 2
    /\ st.attempts[1].generated_sql # st.attempts[2].generated_sql
    /\ RecordedError(st.attempts[1]) # RecordedError(st.attempts[2])
    /\ ~Falsy(RecordedError(st.attempts[2]))
    /\ calls[k].sql = st.attempts[2].generated_sql
    /\ calls[k].arg = RecordedError(st.attempts[2])

(***************************************************************************)
(* The stages of the context-resolution pipeline.                          *)
(***************************************************************************)
\* the edges of the analysis graph, with the exits taken by an exception
StageEdges ==
  {<<"resolve_context", "run_primary">>,
   <<"run_primary", "finalize_primary">>, <<"run_primary", "run_fallback">>,
   <<"finalize_primary", "end">>, <<"run_fallback", "end">>,
   <<"run_primary", "raised">>, <<"run_fallback", "raised">>}

\* this step starts a run of the orchestrator
RunnerStarts == pc' = "construct" /\ pc # "construct"

\* C21: for one question the pipeline runs resolve_context, then run_primary,
\* then exactly one of finalize_primary or run_fallback, then ends; no stage is
\* entered twice, a run of the orchestrator starts only on entering run_primary
\* or run_fallback (so at most two runs), and the fallback run starts only when
\* the primary run has returned its result
StagesRunInOrder ==
  [][ graph.node # "none" =>
        /\ graph'.node # graph.node => <<graph.node, graph'.node>> \in StageEdges
        /\ RunnerStarts =>
             /\ graph'.node # graph.node
             /\ graph'.node \in {"run_primary", "run_fallback"}
        /\ graph'.node = "run_fallback" /\ graph.node # "run_fallback" =>
             /\ pc = "done"
             /\ result # <<>>
             /\ graph'.primary = result
             /\ graph'.fallback = <<>>
        /\ graph'.node = "end" /\ graph.node # "end" =>
             /\ graph'.final # <<>>
             /\ graph.node = "run_fallback" <=> graph'.fallback # <<>>
        /\ graph.node \in {"end", "raised"} => UNCHANGED vars ]_vars

\* C21 witness: the pipeline has ended after the fallback run, whose attempts
\* follow the attempts of the primary run
PipelineEndedAfterFallback ==
  /\ graph.node = "end"
  /\ graph.primary # <<>>
  /\ graph.fallback # <<>>
  /\ graph.final # <<>>
  /\ Len(graph.fallback[1].attempts) > 0

(***************************************************************************)
(* The merged result of a fuzzy retry.                                     *)
(***************************************************************************)
\* the fuzzy retry has run and its result has been merged
FuzzyRetryMerged ==
  graph.node = "end" /\ graph.primary # <<>> /\ graph.fallback # <<>> /\ graph.final # <<>>

\* the attempts of the two runs in the order they were made
AttemptsOfBothRuns == graph.primary[1].attempts \o graph.fallback[1].attempts

\* an attempt without its number
Unnumbered(attempt) == [attempt EXCEPT !.attempt_number = 0]

\* C22: after a fuzzy retry the final result's attempts are the primary run's
\* attempts followed by the fallback run's attempts in their original order, each
\* numbered with its 1-based position in the merged list and otherwise unchanged;
\* its tool_trace is the primary trace, one fuzzy-retry marker, the fallback trace
MergedAttemptsAreRenumberedConcatenation ==
  FuzzyRetryMerged =>
    LET final == graph.final[1]
    IN /\ Len(final.attempts) = Len(AttemptsOfBothRuns)
       /\ \A k \in 1..Len(final.attempts) :
            /\ final.attempts[k].attempt_number = k
            /\ Unnumbered(final.attempts[k]) = Unnumbered(AttemptsOfBothRuns[k])
       /\ final.tool_trace = graph.primary[1].tool_trace \o <<"langgraph_fuzzy_retry">>
                               \o graph.fallback[1].tool_trace

\* C22 witness: a primary run of two attempts is merged with a fallback run whose
\* first attempt becomes attempt 3
MergedTwoAttemptsWithRetry ==
  /\ FuzzyRetryMerged
  /\ Len(graph.primary[1].attempts) = 2
  /\ Len(graph.fallback[1].attempts) >= 1
  /\ graph.fallback[1].attempts[1].attempt_number = 1
  /\ graph.final[1].attempts[3].attempt_number = 3
  /\ graph.fallback[1].attempts[1].generated_sql # graph.primary[1].attempts[1].generated_sql

(***************************************************************************)
(* The attempts of a result.                                               *)
(***************************************************************************)
\* the results handed back for the question: by run() and by the pipeline
HandedBack == Returned \cup {graph.final[i] : i \in 1..Len(graph.final)}

\* every result handed back has at most max_attempts attempts
AttemptsWithinBudget == \A r \in HandedBack : Len(r.attempts) <= cfg.max_attempts

\* xs is the beginning of ys
IsPrefix(xs, ys) == Len(xs) <= Len(ys) /\ SubSeq(ys, 1, Len(xs)) = xs

\* this step keeps every attempt recorded so far as it is: the list of the run is
\* only extended, the result of a finished run is handed on as it is, and the
\* merged result begins with the attempts of the primary run
AttemptsKept ==
  /\ ~RunnerStarts => IsPrefix(st.attempts, st'.attempts)
  /\ graph'.primary # <<>> /\ graph.primary = <<>> => graph'.primary = result
  /\ graph'.final # <<>> /\ graph.final = <<>> =>
       IsPrefix(graph.primary[1].attempts, graph'.final[1].attempts)

\* C23 as stated: every result handed back for a question, the merged result of
\* a fuzzy retry included, has at most max_attempts attempts, and no step
\* modifies or drops an attempt that has been recorded
AttemptsBoundedAndKept ==
  [][ AttemptsWithinBudget' /\ AttemptsKept ]_vars

(***************************************************************************)
(* The deny-list of the validator.                                         *)
(***************************************************************************)
\* the deny-listed keywords: the entries of FORBIDDEN_SQL_TOKENS without the
\* space that follows them
DenyListed == {Strip(FORBIDDEN_SQL_TOKENS[i]) : i \in 1..Len(FORBIDDEN_SQL_TOKENS)}

\* the keyword stands at position i of the text with no \w character next to it
KeywordTokenAt(low, keyword, i) ==
  /\ i + Len(keyword) - 1 <= Len(low)
  /\ SubSeq(low, i, i + Len(keyword) - 1) = keyword
  /\ i = 1 \/ ~IsWordChar(Char(low, i - 1))
  /\ i + Len(keyword) > Len(low) \/ ~IsWordChar(Char(low, i + Len(keyword)))

\* the keyword stands in the text as a token of its own
StandsAsToken(low, keyword) == \E i \in 1..Len(low) : KeywordTokenAt(low, keyword, i)

\* the query passes the checks made before the deny-list check
ReachesDenyList(sql) ==
  LET q == Strip(sql)
      low == Lower(q)
  IN /\ q # ""
     /\ ~Contains(q, ";")
     /\ StartsWith(low, "select ") \/ StartsWith(low, "with ")

\* the verdict is a rejection by the deny-list check
RejectedByDenyList(v) == ~v.ok /\ StartsWith(v.reason, "Forbidden token: ")

\* C24 as stated: the deny-list check rejects a query exactly if a deny-listed
\* keyword stands in it as a token of its own; a keyword that occurs only as
\* part of a longer identifier does not make the check reject
DenyListMatchesWholeTokens ==
  \A v \in Verdicts :
    ReachesDenyList(query.sql) =>
      ( RejectedByDenyList(v) <=>
          \E keyword \in DenyListed : StandsAsToken(Lower(Strip(query.sql)), keyword) )

(***************************************************************************)
(* The two paths of the validator.                                         *)
(***************************************************************************)
\* allowlists a caller can pass as allowed_tables
Allowlists == {{View}, {View, "users"}, {"expenses"}, {}}

\* C25 as stated: for every candidate and every allowlist, a query that the
\* validator accepts on its regex fallback path (sqlglot cannot be imported) is
\* also accepted on its AST path
FallbackAcceptsOnlyWhatAstAccepts ==
  verdict # <<>> =>
    \A allowed \in Allowlists :
      validate_safe_sql(query.sql, query.tree, FALSE, allowed)[1]
        => validate_safe_sql(query.sql, query.tree, TRUE, allowed)[1]

(***************************************************************************)
(* A category token that matches nothing.                                  *)
(***************************************************************************)
\* the token matches no category, subcategory or alias of the static tables and
\* no category of the household
MatchesNoCategory(token, household_categories) ==
  /\ token # ""
  /\ TermsOfTable(token, CATEGORY_TAXONOMY) = {}
  /\ TermsOfTable(token, MANUAL_ALIASES) = {}
  /\ \A i \in 1..Len(household_categories) :
       LET normalized_item == normalize_category_token(household_categories[i])
       IN normalized_item = "" \/ (~Contains(normalized_item, token) /\ ~Contains(token, normalized_item))

\* C26 as stated: when the category token given to build_query matches no static
\* taxonomy category, subcategory or alias and no household category, the
\* statement is built without a category IN-list
UnmatchedCategoryAddsNoFilter ==
  ( /\ Called("build_query")
    /\ ~Falsy(fn_call.category)
    /\ MatchesNoCategory(normalize_category_token(fn_call.category),
                         fn_call.household_categories) ) =>
      /\ CategoryInList(fn_value[1].sql) = ""
      /\ ~Contains(fn_value[1].sql, " IN (")

(***************************************************************************)
(* Two requests in one process.                                            *)
(***************************************************************************)
\* the agent run of the request is pending: the SDK is about to take its key
ReadsCredentials == strategy = "openai" /\ pc = "oa_agent"

\* the result comes from the tool agent of the OpenAI Agents SDK
AgentResult(r) == Len(r.tool_trace) > 0 /\ r.tool_trace[1] = "tool_select"

\* C27 as stated: no step of another request writes state that the request
\* reads, so the credentials its agent run takes are its own, and its result
\* is one it gets when it runs alone: without a key of its own, never the
\* result of an agent run
RequestsDoNotInterfere ==
  /\ ReadsCredentials => environ.OPENAI_API_KEY = cfg.api_key
  /\ (result # <<>> /\ cfg.provider = "openai" /\ cfg.api_key = None) =>
       ~AgentResult(result[1])

(***************************************************************************)
(* The intent of a question.                                               *)
(***************************************************************************)
\* a rule of the keyword classification: the intent it gives when the question
\* holds one of `any` and, unless `also` is empty, one of `also`
IntentRule(intent, any, also) == [intent |-> intent, any |-> any, also |-> also]

\* the rule applies to the lower-cased question
RuleApplies(rule, q) ==
  /\ \E keyword \in rule.any : Contains(q, keyword)
  /\ rule.also = {} \/ \E keyword \in rule.also : Contains(q, keyword)

\* the intent of the first rule that applies, total_spend if none does
IntentByPriority(rules, q) ==
  LET applying == {k \in 1..Len(rules) : RuleApplies(rules[k], q)}
  IN IF applying = {} THEN "total_spend"
     ELSE rules[CHOOSE k \in applying : \A o \in applying : k <= o].intent

\* the keywords as the claim lists them
StatedRules ==
  << IntentRule("total_spend", {"how much", "total", "sum"}, {}),
     IntentRule("top_expenses", {"top", "largest", "highest"}, {"expense"}),
     IntentRule("monthly_trend", {"trend", "over time"}, {}),
     IntentRule("member_breakdown", {"who", "member", "by person"}, {}),
     IntentRule("category_breakdown", {"category", "breakdown"}, {}) >>

\* the keywords with the further ones the classification knows
FullRules ==
  << IntentRule("total_spend", {"how much", "total", "sum"}, {}),
     IntentRule("top_expenses", {"top ", "largest", "highest", "biggest"}, {"expense"}),
     IntentRule("monthly_trend", {"trend", "month over month", "over time"}, {}),
     IntentRule("member_breakdown", {"who", "member", "by user", "by person", "spent most"}, {}),
     IntentRule("category_breakdown", {"category", "breakdown"}, {}) >>

\* the explicit intent of the call, stripped and in lower case ("" for None)
ExplicitOfCall ==
  Lower(Strip(IF Falsy(fn_call.explicit_intent) THEN "" ELSE fn_call.explicit_intent))

\* C28 as stated: infer_intent returns the explicit intent whenever it is one of
\* the five valid intents; otherwise it classifies the question by the keyword
\* priority how much/total/sum, top/largest/highest with expense, trend/over
\* time, who/member/by person, category/breakdown, else total_spend
ExplicitIntentWinsElseKeywords ==
  Called("infer_intent") =>
    fn_value[1] = IF ExplicitOfCall \in Intents THEN ExplicitOfCall
                  ELSE IntentByPriority(StatedRules, Lower(fn_call.question))

\* C28 amended: infer_intent strips and lower-cases the explicit intent; if that
\* is one of the five valid intents it is returned, except that an explicit
\* category_breakdown becomes total_spend when the question contains how much,
\* total or sum; without a valid explicit intent the lower-cased question is
\* classified by substring with the priority: how much/total/sum gives
\* total_spend; else "top " (with the space)/largest/highest/biggest together
\* with expense gives top_expenses; else trend/month over month/over time gives
\* monthly_trend; else who/member/by user/by person/spent most gives
\* member_breakdown; else category/breakdown gives category_breakdown; else
\* total_spend
ExplicitIntentWinsUnlessTotalAsked ==
  Called("infer_intent") =>
    LET q == Lower(fn_call.question)
    IN fn_value[1] =
         IF ExplicitOfCall \in Intents
           THEN IF ExplicitOfCall = "category_breakdown"
                   /\ RuleApplies(FullRules[1], q)
                  THEN "total_spend" ELSE ExplicitOfCall
           ELSE IntentByPriority(FullRules, q)

\* C28 witness: an explicit category_breakdown for a question that asks how much
\* is answered with total_spend
ExplicitBreakdownBecomesTotal ==
  /\ Called("infer_intent")
  /\ fn_call.explicit_intent = "category_breakdown"
  /\ fn_call.question = "How much did I spend on food category this month?"
  /\ fn_value[1] = "total_spend"

(***************************************************************************)
(* The results of the two repair loops.                                    *)
(***************************************************************************)
\* the results returned by the sequential loop or by the graph loop
LoopResults == IF strategy \in {"sequential", "langgraph"} THEN Returned ELSE {}

\* C29: in every result of the sequential loop and of the graph loop, success
\* holds exactly if the last recorded attempt has execution_ok; every earlier
\* attempt has execution_ok = false; an attempt with execution_ok has
\* validation_ok; final_sql is the generated_sql of the last attempt; and the
\* attempt numbers are 1..n in recording order
LoopResultIsConsistent ==
  \A r \in LoopResults :
    LET n == Len(r.attempts)
    IN /\ n >= 1
       /\ r.success <=> r.attempts[n].execution_ok
       /\ \A k \in 1..(n - 1) : ~r.attempts[k].execution_ok
       /\ \A k \in 1..n : r.attempts[k].execution_ok => r.attempts[k].validation_ok
       /\ r.final_sql = r.attempts[n].generated_sql
       /\ \A k \in 1..n : r.attempts[k].attempt_number = k

\* C29 witness: the graph loop or the sequential loop returns success on its
\* third attempt, after a rejected and a failed attempt
LoopSucceededOnThirdAttempt ==
  \E r \in LoopResults :
    /\ r.success
    /\ Len(r.attempts) = 3
    /\ ~r.attempts[1].validation_ok
    /\ r.attempts[2].validation_ok /\ ~r.attempts[2].execution_ok
    /\ r.attempts[3].execution_ok
    /\ r.final_sql = r.attempts[3].generated_sql
    /\ r.attempts[1].generated_sql # r.final_sql

(***************************************************************************)
(* The two loops on the same outcomes.                                     *)
(***************************************************************************)
\* the graph loop has been called after the sequential loop
GraphLoopCalled == fn_call.fn = "_run_langgraph" /\ fn_value # <<>>

\* every error text among the outcomes of the sequential loop is non-empty
ErrorTextsNonEmpty ==
  \A k \in 1..Len(SequentialRun.calls) :
    LET c == SequentialRun.calls[k]
    IN (c.op = "execute" /\ ~c.ok) => ~Falsy(c.arg.err)

====
